---- MODULE Spec2Model ----
(***************************************************************************)
(* Turf booking backend: the JSON record store (database.py), the HTTP     *)
(* boundary (app.py) and the conversation dispatcher (agent.py).           *)
(*                                                                         *)
(* Optional values (Python None / a found record) are sequences of length  *)
(* 0 or 1.  A request body is a function from the keys it carries to       *)
(* their values, so "field not in data" is a test on DOMAIN.               *)
(***************************************************************************)
EXTENDS Integers, Sequences, FiniteSets, TLC

VARIABLES
    turfs,                  \* self.data["turfs"]       (database.py:11)
    bookings,               \* self.data["bookings"]    (database.py:11)
    disk,                   \* contents of bookings.json (database.py:23-26)
    conversation_history,   \* agent.conversation_history (agent.py:19)
    resp,                   \* what the last operation returned to its caller
    inflight                \* the requests being served concurrently, one
                            \* per worker thread: position and locals

vars == <<turfs, bookings, disk, conversation_history, resp, inflight>>

----------------------------------------------------------------------------
(* Bounds of the model *)

MaxBookings == 2    \* bookings are created while fewer than this many exist
MaxTurns == 2       \* POST /chat appends a user turn at most this many times
MaxPriorExchanges == 6  \* a transcript starts with at most this many exchanges
MaxStored == 13     \* a listing is asked of a store holding at most this many bookings

----------------------------------------------------------------------------
(* Program constants *)

PricePerHour == 1500
ContextWindow == 10
SlotsShown == 10
BookingsShown == 10

AvailableHours ==
    << "06:00", "07:00", "08:00", "09:00", "10:00", "11:00",
       "12:00", "13:00", "14:00", "15:00", "16:00", "17:00",
       "18:00", "19:00", "20:00", "21:00", "22:00" >>

\* The seeded facility.  Display-only fields that no operation reads
\* (description, amenities, size, surface_type, images, rating) are left out.
DummyTurf ==
    [ id |-> "turf_001",
      name |-> "Green Valley Sports Arena",
      location |-> "Downtown, Sector 21, Main Street",
      price_per_hour |-> PricePerHour,
      available_hours |-> AvailableHours,
      total_reviews |-> 128 ]

RequiredFields == << "turf_id", "customer_name", "customer_phone", "date", "time_slot" >>

----------------------------------------------------------------------------
(* Formatting *)

Digits == << "0", "1", "2", "3", "4", "5", "6", "7", "8", "9" >>

\* Python's format spec 04d for a non-negative integer
Format04d(n) ==
    IF n < 10 THEN "000" \o ToString(n)
    ELSE IF n < 100 THEN "00" \o ToString(n)
    ELSE IF n < 1000 THEN "0" \o ToString(n)
    ELSE ToString(n)

\* strftime("%Y-%m-%d") of the d-th day of June 2024
DateStr(d) ==
    "2024-06-" \o (IF d < 10 THEN "0" \o ToString(d) ELSE ToString(d))

\* strftime("%Y-%m-%d %H:%M:%S"), the clock read at noon of day d
TimeStr(d) == DateStr(d) \o " 12:00:00"

\* dict.get(key, default)
Get(d, key, default) == IF key \in DOMAIN d THEN d[key] ELSE default

Min(S) == CHOOSE x \in S : \A y \in S : x <= y

----------------------------------------------------------------------------
(* database.py: the record store and the engine *)

\* load_data, when bookings.json does not exist
EmptyData == [ turfs |-> << >>, bookings |-> << >> ]

\* json.dump writes an int as its decimal digits, most significant first
RECURSIVE DecimalDigits(_)
DecimalDigits(n) ==
    IF n < 10 THEN << Digits[n + 1] >>
    ELSE Append(DecimalDigits(n \div 10), Digits[(n % 10) + 1])

\* json.load reads a run of decimal digits back as an int
RECURSIVE ParseDecimal(_)
ParseDecimal(ds) ==
    IF Len(ds) = 0 THEN 0
    ELSE 10 * ParseDecimal(SubSeq(ds, 1, Len(ds) - 1))
            + (CHOOSE d \in 0 .. 9 : Digits[d + 1] = ds[Len(ds)])

\* a plausible slip: numbers are written without their last digit
JsonDump_truncates_numbers(data) ==
    [ complete |-> TRUE, size |-> 1 + Len(data.bookings),
      turfs |-> [ i \in DOMAIN data.turfs |->
                    [ data.turfs[i] EXCEPT
                        !.price_per_hour = DecimalDigits(@ \div 10),
                        !.total_reviews = DecimalDigits(@) ] ],
      bookings |-> [ i \in DOMAIN data.bookings |->
                    [ data.bookings[i] EXCEPT
                        !.duration = DecimalDigits(@),
                        !.total_amount = DecimalDigits(@ \div 10) ] ] ]

\* json.dump of self.data: a whole document in which strings and lists stand
\* as they are and every number is written out in decimal digits.  size is the
\* length of the document, counted in records (the facility list and each
\* booking); the bookings of this model all take the same number of bytes.
JsonDump(data) ==
    [ complete |-> TRUE, size |-> 1 + Len(data.bookings),
      turfs |-> [ i \in DOMAIN data.turfs |->
                    [ data.turfs[i] EXCEPT
                        !.price_per_hour = DecimalDigits(@),
                        !.total_reviews = DecimalDigits(@) ] ],
      bookings |-> [ i \in DOMAIN data.bookings |->
                    [ data.bookings[i] EXCEPT
                        !.duration = DecimalDigits(@),
                        !.total_amount = DecimalDigits(@) ] ] ]

\* json.load of a whole document: the numbers are parsed back
JsonLoad(file) ==
    [ turfs |-> [ i \in DOMAIN file.turfs |->
                    [ file.turfs[i] EXCEPT
                        !.price_per_hour = ParseDecimal(@),
                        !.total_reviews = ParseDecimal(@) ] ],
      bookings |-> [ i \in DOMAIN file.bookings |->
                    [ file.bookings[i] EXCEPT
                        !.duration = ParseDecimal(@),
                        !.total_amount = ParseDecimal(@) ] ] ]

\* bookings.json once open(..., 'w') has emptied it and nothing has reached
\* it yet: not a whole document
TruncatedFile ==
    [ complete |-> FALSE, size |-> 0, turfs |-> << >>, bookings |-> << >> ]

\* the file after a writer that opened it earlier flushes its buffered
\* document from offset 0 as it closes: the document, unless the file has
\* meanwhile grown longer than it, in which case the tail of the longer
\* content stays behind it and the file is not a whole document
WriteOver(file, buffer) ==
    IF file.size <= buffer.size THEN buffer
    ELSE [ complete |-> FALSE, size |-> file.size, turfs |-> << >>, bookings |-> << >> ]

\* the ways a write of bookings.json fails: open() refused, which leaves the
\* file as it was, or the write itself refused after open() has emptied it
StorageFaults ==
    { [ error |-> "[Errno 13] Permission denied: 'bookings.json'", emptied |-> FALSE ],
      [ error |-> "[Errno 27] File too large", emptied |-> TRUE ] }

\* the faults met while the document is flushed to the file
FlushFaults == { f \in StorageFaults : f.emptied }

\* the file after a write that failed with the fault
FailedWrite(file, fault) == IF fault.emptied THEN TruncatedFile ELSE file

\* what save_data writes for a given in-memory collection
Saved(ts, bs) == JsonDump([ turfs |-> ts, bookings |-> bs ])

\* initialize_dummy_turf: the facility list after seeding
SeededTurfs(ts) == IF ts = << >> THEN << DummyTurf >> ELSE ts

\* a plausible slip: an unknown id falls back to the first facility
get_turf_by_id_fallback(turf_id) ==
    LET hits == { i \in DOMAIN turfs : turfs[i].id = turf_id }
    IN  IF turfs = << >> THEN << >>
        ELSE IF hits = {} THEN << turfs[1] >> ELSE << turfs[Min(hits)] >>

get_turf_by_id(turf_id) ==
    LET hits == { i \in DOMAIN turfs : turfs[i].id = turf_id }
    IN  IF hits = {} THEN << >> ELSE << turfs[Min(hits)] >>

get_bookings_for_date(turf_id, date) ==
    SelectSeq(bookings, LAMBDA b : b.turf_id = turf_id /\ b.date = date)

\* database.py 62-68 as a running request holds its result: the list returned
\* holds the very records of the collection, here their places in it
bookings_for_date_at(turf_id, date) ==
    SelectSeq([ i \in DOMAIN bookings |-> i ],
              LAMBDA i : bookings[i].turf_id = turf_id /\ bookings[i].date = date)

\* a plausible alternative: a confirmed booking holds as many successive
\* slots of available_hours as its duration
check_availability_spans_duration(turf_id, date, time_slot) ==
    LET bs == get_bookings_for_date(turf_id, date)
        at(slot) == IF \E n \in DOMAIN AvailableHours : AvailableHours[n] = slot
                    THEN CHOOSE n \in DOMAIN AvailableHours : AvailableHours[n] = slot
                    ELSE 0
    IN  ~ \E i \in DOMAIN bs :
            /\ bs[i].status = "confirmed"
            /\ \/ bs[i].time_slot = time_slot
               \/ /\ at(time_slot) # 0 /\ at(bs[i].time_slot) # 0
                  /\ at(time_slot) >= at(bs[i].time_slot)
                  /\ at(time_slot) < at(bs[i].time_slot) + bs[i].duration

\* a plausible slip: the status is compared with the wrong constant
check_availability_wrong_status(turf_id, date, time_slot) ==
    LET bs == get_bookings_for_date(turf_id, date)
    IN  ~ \E i \in DOMAIN bs :
            bs[i].time_slot = time_slot /\ bs[i].status = "cancelled"

check_availability(turf_id, date, time_slot) ==
    LET bs == get_bookings_for_date(turf_id, date)
    IN  ~ \E i \in DOMAIN bs :
            bs[i].time_slot = time_slot /\ bs[i].status = "confirmed"

\* a plausible slip: the sequence number is the count, not the count plus one
next_booking_id_off_by_one == "BK" \o Format04d(Len(bookings))

\* the id create_booking assigns
next_booking_id == "BK" \o Format04d(Len(bookings) + 1)

\* the record create_booking builds from booking_data, the clock reading day now
new_booking(booking_data, now) ==
    [ booking_id |-> next_booking_id,
      turf_id |-> booking_data["turf_id"],
      customer_name |-> booking_data["customer_name"],
      customer_phone |-> booking_data["customer_phone"],
      customer_email |-> Get(booking_data, "customer_email", ""),
      date |-> booking_data["date"],
      time_slot |-> booking_data["time_slot"],
      duration |-> Get(booking_data, "duration", 1),
      status |-> "confirmed",
      created_at |-> TimeStr(now),
      total_amount |-> Get(booking_data, "total_amount", 0) ]

\* a plausible slip: the loop variable is used after a loop that found nothing
find_booking_loop_leak(booking_id) ==
    LET hits == { i \in DOMAIN bookings : bookings[i].booking_id = booking_id }
    IN  IF hits = {} THEN Len(bookings) ELSE Min(hits)

\* index of the booking cancel_booking's loop stops at, 0 when it finds none
find_booking(booking_id) ==
    LET hits == { i \in DOMAIN bookings : bookings[i].booking_id = booking_id }
    IN  IF hits = {} THEN 0 ELSE Min(hits)

\* a plausible slip: cancel toggles the status instead of setting it
cancelled_at_toggles(i) ==
    [ bookings EXCEPT ![i].status =
          IF bookings[i].status = "confirmed" THEN "cancelled" ELSE "confirmed" ]

\* a plausible slip: cancel deletes the record instead of marking it
cancelled_at_removes(i) ==
    SubSeq(bookings, 1, i - 1) \o SubSeq(bookings, i + 1, Len(bookings))

\* the collection after cancel_booking has flipped the booking at index i
cancelled_at(i) == [ bookings EXCEPT ![i].status = "cancelled" ]

----------------------------------------------------------------------------
(* What an operation hands back to its caller *)

NoResp ==
    [ op |-> "init", code |-> 0, ok |-> TRUE, error |-> "", booking |-> << >>,
      available_slots |-> << >>, booked_slots |-> << >>, price |-> 0,
      reply |-> "", saved |-> FALSE, llm |-> << >>,
      turf_id |-> "", date |-> "" ]

----------------------------------------------------------------------------
(* Input sets *)

\* the days of June 2024 on which datetime.now() may fall
Days == { 1, 2 }
TurfIds == { "turf_001", "turf_404" }
DateInputs == { "2024-06-01", "2024-06-02" }
SlotInputs == { "18:00", "03:00" }
CancelIds == { "BK" \o Format04d(k) : k \in 1 .. MaxBookings } \cup { "BK9999" }

Restrict(f, keys) == [ k \in keys |-> f[k] ]

Required == { RequiredFields[i] : i \in DOMAIN RequiredFields }

\* a body for the seeded facility
DummyBody ==
    [ turf_id |-> "turf_001", customer_name |-> "Asha", customer_phone |-> "9000000001",
      date |-> "2024-06-01", time_slot |-> "18:00" ]

\* request bodies carrying every required key
CompleteBodies ==
    [ turf_id : TurfIds, customer_name : { "Asha" }, customer_phone : { "9000000001" },
      date : DateInputs, time_slot : SlotInputs ]

\* a body asking for two hours
TwoHourBodies ==
    { [ k \in Required \cup { "duration" } |-> IF k = "duration" THEN 2 ELSE f[k] ] :
        f \in { g \in CompleteBodies : g.turf_id = "turf_001" /\ g.date = "2024-06-01"
                                          /\ g.time_slot = "18:00" } }

\* bodies lacking one required key, or two
IncompleteBodies ==
    { Restrict(f, Required \ K) :
        f \in { g \in CompleteBodies : g.date = "2024-06-01" /\ g.time_slot = "18:00" },
        K \in { { k } : k \in Required } \cup { { "turf_id", "date" } } }

BookRequests == CompleteBodies \cup TwoHourBodies \cup IncompleteBodies

\* what the engine's create_booking is handed when called directly
EngineDetails ==
    { f \in CompleteBodies : f.time_slot = "18:00" }
        \cup TwoHourBodies

\* the worker threads of the development server, one per request being served
Threads == { 1, 2 }

\* a thread serving no request: no body, no locals, nothing returned.  Of a
\* request being served, kind is the handler, data the body, booking_id the
\* path argument, count the number of bookings read for the id, booking the
\* record built, at the place in the collection of the record the request
\* appended or cancelled or last looked at (the request holds that very
\* record, not a copy), for_date the places of the records
\* get_bookings_for_date returned that are still to be looked at, dumped the
\* bookings json.dump has written to the file's buffer so far, message the
\* chat message, days the days the availability report has still to cover,
\* booked_slots and confirmed_bookings the lists the two reports are
\* filling, sent the context handed to the completion service, reply the
\* reply as far as it is built, and code, error and body the answer; the
\* body, the buffer and the lists are dropped when they are no longer used.
IdleRequest ==
    [ pc |-> "idle", kind |-> "", data |-> << >>, booking_id |-> "", count |-> 0,
      booking |-> << >>, at |-> 0, for_date |-> << >>, dumped |-> << >>,
      message |-> "", days |-> << >>, booked_slots |-> << >>,
      confirmed_bookings |-> << >>, sent |-> << >>, reply |-> "",
      code |-> 0, error |-> "", body |-> << >> ]

\* the bodies clients send to POST /api/book at the same time: the seeded
\* facility at 18:00 on either date, an unknown facility, and a body
\* without a name
RaceRequests ==
    { f \in CompleteBodies :
        f.time_slot = "18:00" /\ (f.turf_id = "turf_001" \/ f.date = "2024-06-01") }
        \cup { f \in IncompleteBodies : "customer_name" \notin DOMAIN f /\ "date" \in DOMAIN f }

\* the ids clients send to POST /api/cancel/<booking_id> at the same time
RaceCancelIds == { "BK0001", "BK9999" }

\* the requests of the runs that follow a cancel through the collection:
\* creates for the seeded facility at 18:00 on either date, and cancels by
\* the id of the first booking and of the second, either of which no
\* booking carries while the collection is shorter
CancelRaceRequests ==
    { f \in CompleteBodies : f.time_slot = "18:00" /\ f.turf_id = "turf_001" }

CancelRaceIds == { "BK0001", "BK0002" }

\* the messages of the runs in which reports are asked for while bookings
\* are made and cancelled
ReadMessages == { "Check Availability", "list MY BOOKINGS" }

ReadRaceRequests ==
    { f \in CompleteBodies :
        f.turf_id = "turf_001" /\ f.date = "2024-06-02" /\ f.time_slot = "18:00" }

----------------------------------------------------------------------------
(* Construction: TurfBookingAgent.__init__ with no bookings.json on disk *)

Init ==
    /\ turfs = SeededTurfs(EmptyData.turfs)
    /\ bookings = EmptyData.bookings
    /\ disk = Saved(SeededTurfs(EmptyData.turfs), EmptyData.bookings)
    /\ conversation_history = << >>
    /\ resp = [ NoResp EXCEPT !.saved = TRUE ]
    /\ inflight = [ t \in Threads |-> IdleRequest ]

----------------------------------------------------------------------------
(* Engine operations called directly (database.py) *)

DbCreateBooking(booking_data, now) ==
    /\ Len(bookings) < MaxBookings
    /\ LET booking == new_booking(booking_data, now)
       IN  /\ bookings' = Append(bookings, booking)
           /\ disk' = Saved(turfs, bookings')
           /\ resp' = [ NoResp EXCEPT !.op = "db.create_booking",
                                      !.booking = << booking >>, !.saved = TRUE ]
    /\ UNCHANGED << turfs, conversation_history, inflight >>

DbCancelBooking(booking_id) ==
    /\ LET i == find_booking(booking_id)
       IN  IF i # 0
           THEN /\ bookings' = cancelled_at(i)
                /\ disk' = Saved(turfs, bookings')
                /\ resp' = [ NoResp EXCEPT !.op = "db.cancel_booking",
                                           !.ok = TRUE, !.saved = TRUE ]
           ELSE /\ resp' = [ NoResp EXCEPT !.op = "db.cancel_booking", !.ok = FALSE ]
                /\ UNCHANGED << bookings, disk >>
    /\ UNCHANGED << turfs, conversation_history, inflight >>

\* create_booking when save_data raises: the record is already appended
\* (database.py 94), the file is as it was or emptied, the error propagates
DbCreateBookingSaveFails(booking_data, now) ==
    /\ Len(bookings) < MaxBookings
    /\ bookings' = Append(bookings, new_booking(booking_data, now))
    /\ \E fault \in StorageFaults :
          /\ disk' = FailedWrite(disk, fault)
          /\ resp' = [ NoResp EXCEPT !.op = "db.create_booking", !.ok = FALSE,
                                     !.error = fault.error ]
    /\ UNCHANGED << turfs, conversation_history, inflight >>

\* cancel_booking when save_data raises: the status is already set
\* (database.py 102), the file is as it was or emptied, the error propagates
DbCancelBookingSaveFails(booking_id) ==
    /\ find_booking(booking_id) # 0
    /\ bookings' = cancelled_at(find_booking(booking_id))
    /\ \E fault \in StorageFaults :
          /\ disk' = FailedWrite(disk, fault)
          /\ resp' = [ NoResp EXCEPT !.op = "db.cancel_booking", !.ok = FALSE,
                                     !.error = fault.error ]
    /\ UNCHANGED << turfs, conversation_history, inflight >>

\* the process is started again: TurfBookingAgent.__init__ loads
\* bookings.json, seeds the facility if there is none and starts an empty
\* transcript; json.load raises on a file that is not a whole document
Restart ==
    /\ disk.complete
    /\ LET data == JsonLoad(disk)
       IN  /\ turfs' = SeededTurfs(data.turfs)
           /\ bookings' = data.bookings
           /\ disk' = IF data.turfs = << >> THEN Saved(turfs', bookings') ELSE disk
           /\ resp' = [ NoResp EXCEPT !.op = "restart",
                                      !.saved = (data.turfs = << >>) ]
    /\ conversation_history' = << >>
    /\ inflight' = [ t \in Threads |-> IdleRequest ]

----------------------------------------------------------------------------
(* Boundary handlers (app.py) *)

\* the first required field the body lacks, in the order of required_fields
first_missing(data) ==
    LET miss == { i \in DOMAIN RequiredFields : RequiredFields[i] \notin DOMAIN data }
    IN  IF miss = {} THEN << >> ELSE << RequiredFields[Min(miss)] >>

\* no request is being served by a worker thread
Quiescent == \A t \in Threads : inflight[t].pc \in { "idle", "done" }

\* POST /api/book served from start to end while no other request is in
\* flight; clock is the set of days datetime.now() may fall on and faults
\* the ways the write of the file may fail.  When save_data raises, the
\* except branch answers 500 with the record already appended.
ApiBook(data, clock, faults) ==
    /\ Quiescent
    /\ UNCHANGED << turfs, conversation_history, inflight >>
    /\ IF first_missing(data) # << >>
       THEN /\ resp' = [ NoResp EXCEPT !.op = "book", !.code = 400, !.ok = FALSE,
                            !.error = "Missing required field: " \o first_missing(data)[1] ]
            /\ UNCHANGED << bookings, disk >>
       ELSE IF ~ check_availability(data["turf_id"], data["date"], data["time_slot"])
       THEN /\ resp' = [ NoResp EXCEPT !.op = "book", !.code = 400, !.ok = FALSE,
                            !.error = "This time slot is already booked" ]
            /\ UNCHANGED << bookings, disk >>
       ELSE IF get_turf_by_id(data["turf_id"]) = << >>
       THEN /\ resp' = [ NoResp EXCEPT !.op = "book", !.code = 404, !.ok = FALSE,
                            !.error = "Turf not found" ]
            /\ UNCHANGED << bookings, disk >>
       ELSE LET turf == get_turf_by_id(data["turf_id"])[1]
                duration == Get(data, "duration", 1)
                details == [ k \in DOMAIN data \cup { "total_amount" } |->
                               IF k = "total_amount"
                               THEN turf.price_per_hour * duration
                               ELSE data[k] ]
            IN  /\ Len(bookings) < MaxBookings
                /\ \E now \in clock :
                     LET booking == new_booking(details, now)
                     IN  /\ bookings' = Append(bookings, booking)
                         /\ \/ /\ disk' = Saved(turfs, bookings')
                               /\ resp' = [ NoResp EXCEPT !.op = "book", !.code = 200,
                                               !.booking = << booking >>, !.saved = TRUE ]
                            \/ \E fault \in faults :
                                 /\ disk' = FailedWrite(disk, fault)
                                 /\ resp' = [ NoResp EXCEPT !.op = "book", !.code = 500,
                                                 !.ok = FALSE, !.error = fault.error ]

\* POST /api/cancel/<booking_id> served from start to end while no other
\* request is in flight; faults are the ways the write of the file may
\* fail.  When save_data raises, the except branch answers 500 with the
\* status already set.
ApiCancel(booking_id, faults) ==
    /\ Quiescent
    /\ UNCHANGED << turfs, conversation_history, inflight >>
    /\ LET i == find_booking(booking_id)
       IN  IF i # 0
           THEN /\ bookings' = cancelled_at(i)
                /\ \/ /\ disk' = Saved(turfs, bookings')
                      /\ resp' = [ NoResp EXCEPT !.op = "cancel", !.code = 200,
                                                 !.saved = TRUE ]
                   \/ \E fault \in faults :
                        /\ disk' = FailedWrite(disk, fault)
                        /\ resp' = [ NoResp EXCEPT !.op = "cancel", !.code = 500,
                                        !.ok = FALSE, !.error = fault.error ]
           ELSE /\ resp' = [ NoResp EXCEPT !.op = "cancel", !.code = 404, !.ok = FALSE,
                                !.error = "Booking not found" ]
                /\ UNCHANGED << bookings, disk >>

\* the two list comprehensions of GET /api/availability (app.py)
api_booked_slots(turf_id, date) ==
    LET c == SelectSeq(get_bookings_for_date(turf_id, date),
                       LAMBDA b : b.status = "confirmed")
    IN  [ i \in DOMAIN c |-> c[i].time_slot ]

\* a plausible slip: the status filter is forgotten
api_available_slots_any_status(turf, date) ==
    LET bs == get_bookings_for_date(turf.id, date)
    IN  SelectSeq(turf.available_hours,
                  LAMBDA slot : ~ \E i \in DOMAIN bs : bs[i].time_slot = slot)

api_available_slots(turf, date) ==
    LET booked == api_booked_slots(turf.id, date)
    IN  SelectSeq(turf.available_hours,
                  LAMBDA slot : ~ \E i \in DOMAIN booked : booked[i] = slot)

\* GET /api/availability/<turf_id>/<date>
ApiAvailability(turf_id, date) ==
    /\ Quiescent
    /\ UNCHANGED << turfs, bookings, disk, conversation_history, inflight >>
    /\ IF get_turf_by_id(turf_id) = << >>
       THEN resp' = [ NoResp EXCEPT !.op = "availability", !.code = 404, !.ok = FALSE,
                         !.error = "Turf not found",
                         !.turf_id = turf_id, !.date = date ]
       ELSE LET turf == get_turf_by_id(turf_id)[1]
            IN  resp' = [ NoResp EXCEPT !.op = "availability", !.code = 200,
                            !.available_slots = api_available_slots(turf, date),
                            !.booked_slots = api_booked_slots(turf_id, date),
                            !.price = turf.price_per_hour,
                            !.turf_id = turf_id, !.date = date ]

----------------------------------------------------------------------------
(* agent.py: the conversation dispatcher *)

\* The characters of the messages the model sends, since a TLA+ string
\* cannot be taken apart.
CharsOf(message) ==
    CASE message = "Check Availability" ->
        << "C", "h", "e", "c", "k", " ", "A", "v", "a", "i", "l", "a", "b", "i", "l",
           "i", "t", "y" >>
      [] message = "any available slots?" ->
        << "a", "n", "y", " ", "a", "v", "a", "i", "l", "a", "b", "l", "e", " ", "s",
           "l", "o", "t", "s", "?" >>
      [] message = "show bookings" ->
        << "s", "h", "o", "w", " ", "b", "o", "o", "k", "i", "n", "g", "s" >>
      [] message = "View Bookings please" ->
        << "V", "i", "e", "w", " ", "B", "o", "o", "k", "i", "n", "g", "s", " ", "p",
           "l", "e", "a", "s", "e" >>
      [] message = "list MY BOOKINGS" ->
        << "l", "i", "s", "t", " ", "M", "Y", " ", "B", "O", "O", "K", "I", "N", "G",
           "S" >>
      [] message = "my bookings, then check availability" ->
        << "m", "y", " ", "b", "o", "o", "k", "i", "n", "g", "s", ",", " ", "t", "h",
           "e", "n", " ", "c", "h", "e", "c", "k", " ", "a", "v", "a", "i", "l", "a",
           "b", "i", "l", "i", "t", "y" >>
      [] message = "hello" ->
        << "h", "e", "l", "l", "o" >>
      [] message = "check availabilty" ->
        << "c", "h", "e", "c", "k", " ", "a", "v", "a", "i", "l", "a", "b", "i", "l",
           "t", "y" >>
      [] message = "show  bookings" ->
        << "s", "h", "o", "w", " ", " ", "b", "o", "o", "k", "i", "n", "g", "s" >>
      [] OTHER -> << >>

\* str.lower() on the letters A to Z
UpperToLower ==
    [ A |-> "a", B |-> "b", C |-> "c", D |-> "d", E |-> "e", F |-> "f", G |-> "g", H |-> "h", I |-> "i", J |-> "j", K |-> "k", L |-> "l", M |-> "m",
      N |-> "n", O |-> "o", P |-> "p", Q |-> "q", R |-> "r", S |-> "s", T |-> "t", U |-> "u", V |-> "v", W |-> "w", X |-> "x", Y |-> "y", Z |-> "z" ]

Lower(chars) ==
    [ i \in DOMAIN chars |->
        IF chars[i] \in DOMAIN UpperToLower THEN UpperToLower[chars[i]] ELSE chars[i] ]

\* message.lower()
message_lower(chars) == Lower(chars)

\* Python's "needle in hay" on strings
Contains(hay, needle) ==
    \E i \in 0 .. (Len(hay) - Len(needle)) :
        SubSeq(hay, i + 1, i + Len(needle)) = needle

CheckAvailabilityPhrase ==
    << "c", "h", "e", "c", "k", " ", "a", "v", "a", "i", "l", "a", "b", "i", "l",
       "i", "t", "y" >>

AvailableSlotsPhrase ==
    << "a", "v", "a", "i", "l", "a", "b", "l", "e", " ", "s", "l", "o", "t", "s" >>

ShowBookingsPhrase ==
    << "s", "h", "o", "w", " ", "b", "o", "o", "k", "i", "n", "g", "s" >>

ViewBookingsPhrase ==
    << "v", "i", "e", "w", " ", "b", "o", "o", "k", "i", "n", "g", "s" >>

MyBookingsPhrase ==
    << "m", "y", " ", "b", "o", "o", "k", "i", "n", "g", "s" >>

Join(seq, sep) ==
    LET RECURSIVE join(_)
        join(n) == IF n = 0 THEN ""
                   ELSE IF n = 1 THEN seq[1]
                   ELSE join(n - 1) \o sep \o seq[n]
    IN  join(Len(seq))

\* seq[:n]
FirstN(seq, n) == SubSeq(seq, 1, IF Len(seq) > n THEN n ELSE Len(seq))

\* seq[-n:]
LastN(seq, n) == SubSeq(seq, IF Len(seq) > n THEN Len(seq) - n + 1 ELSE 1, Len(seq))

\* the system instruction; its fixed guideline text is abridged
get_system_prompt ==
    "You are a professional and friendly turf booking assistant. Available Turfs: "
        \o Join([ i \in DOMAIN turfs |-> turfs[i].id \o " " \o turfs[i].name ], ", ")

\* the two list comprehensions of _get_availability_info
agent_available_slots(turf, date) ==
    LET c == SelectSeq(get_bookings_for_date(turf.id, date),
                       LAMBDA b : b.status = "confirmed")
        booked_slots == [ i \in DOMAIN c |-> c[i].time_slot ]
    IN  SelectSeq(turf.available_hours,
                  LAMBDA slot : ~ \E i \in DOMAIN booked_slots : booked_slots[i] = slot)

\* stand-ins for the two non-ASCII literals of the source's f-strings
\* (the currency sign before an amount, the ticket sign before a booking)
RupeeSign == "<rupee>"
TicketSign == "<ticket>"

\* the heading of the availability report
availability_heading(turf) ==
    "**" \o turf.name \o "** - Availability Status\n\n"
        \o "Price: " \o RupeeSign \o ToString(turf.price_per_hour) \o "/hour\n\n"

\* the report's lines for one day
availability_section(date_label, date, available_slots) ==
    "**" \o date_label \o " (" \o date \o "):**\n"
        \o ( IF available_slots # << >>
             THEN "Available slots: " \o Join(FirstN(available_slots, SlotsShown), ", ")
                    \o ( IF Len(available_slots) > SlotsShown
                         THEN " and " \o ToString(Len(available_slots) - SlotsShown) \o " more"
                         ELSE "" )
                    \o "\n\n"
             ELSE "No slots available\n\n" )

\* _get_availability_info, the clock reading day now
get_availability_info(now) ==
    IF turfs = << >>
    THEN "No turfs available at the moment."
    ELSE LET turf == turfs[1]
             today == DateStr(now)
             tomorrow == DateStr(now + 1)
         IN  availability_heading(turf)
               \o availability_section("Today", today, agent_available_slots(turf, today))
               \o availability_section("Tomorrow", tomorrow,
                                       agent_available_slots(turf, tomorrow))

\* the lines the listing shows for one booking
booking_entry(booking) ==
    TicketSign \o " **Booking ID:** " \o booking.booking_id \o "\n"
        \o "   Customer: " \o booking.customer_name \o "\n"
        \o "   Date: " \o booking.date \o " at " \o booking.time_slot \o "\n"
        \o "   Amount: " \o RupeeSign \o ToString(booking.total_amount) \o "\n\n"

\* _get_all_bookings_info
get_all_bookings_info ==
    IF bookings = << >>
    THEN "No bookings found."
    ELSE LET confirmed_bookings == SelectSeq(bookings, LAMBDA b : b.status = "confirmed")
             shown == LastN(confirmed_bookings, BookingsShown)
         IN  IF confirmed_bookings = << >>
             THEN "No confirmed bookings at the moment."
             ELSE "**Current Bookings:**\n\n"
                    \o Join([ i \in DOMAIN shown |-> booking_entry(shown[i]) ], "")

\* the two tests of _handle_special_commands: which report the message
\* asks for, if any
special_command(message) ==
    LET m == message_lower(CharsOf(message))
    IN  IF Contains(m, CheckAvailabilityPhrase) \/ Contains(m, AvailableSlotsPhrase)
        THEN "availability"
        ELSE IF \/ Contains(m, ShowBookingsPhrase) \/ Contains(m, ViewBookingsPhrase)
                \/ Contains(m, MyBookingsPhrase)
        THEN "bookings"
        ELSE ""

\* _handle_special_commands; the empty string stands for None, which the
\* caller's truth test treats alike
handle_special_commands(message, now) ==
    IF special_command(message) = "availability" THEN get_availability_info(now)
    ELSE IF special_command(message) = "bookings" THEN get_all_bookings_info
    ELSE ""

Turn(role, content) == [ role |-> role, content |-> content ]

\* the reply built when the completion service raises an error described by e
error_message(e) ==
    "I apologize, but I encountered an error: " \o e \o ". Please try again."

\* a plausible slip: the failure branch returns the apology without
\* recording it in the transcript
process_message_apology_not_recorded(user_message, now, outcome) ==
    LET history == Append(conversation_history, Turn("user", user_message))
        response == handle_special_commands(user_message, now)
        messages == << Turn("system", get_system_prompt) >> \o LastN(history, ContextWindow)
        call == << [ messages |-> messages, outcome |-> outcome ] >>
    IN  IF response # ""
        THEN [ history |-> Append(history, Turn("assistant", response)),
               reply |-> response, llm |-> << >> ]
        ELSE IF outcome.ok
        THEN [ history |-> Append(history, Turn("assistant", outcome.text)),
               reply |-> outcome.text, llm |-> call ]
        ELSE [ history |-> history,
               reply |-> error_message(outcome.text), llm |-> call ]

\* process_message: the transcript it leaves, the reply it returns and the
\* calls it made to the completion service (the context sent and what the
\* service did); the clock reads day now, the service would do outcome
process_message(user_message, now, outcome) ==
    LET history == Append(conversation_history, Turn("user", user_message))
        response == handle_special_commands(user_message, now)
        messages == << Turn("system", get_system_prompt) >> \o LastN(history, ContextWindow)
        call == << [ messages |-> messages, outcome |-> outcome ] >>
    IN  IF response # ""
        THEN [ history |-> Append(history, Turn("assistant", response)),
               reply |-> response, llm |-> << >> ]
        ELSE IF outcome.ok
        THEN [ history |-> Append(history, Turn("assistant", outcome.text)),
               reply |-> outcome.text, llm |-> call ]
        ELSE [ history |-> Append(history, Turn("assistant", error_message(outcome.text))),
               reply |-> error_message(outcome.text), llm |-> call ]

\* what the completion service may do with a request
LlmOutcomes ==
    { [ ok |-> TRUE, text |-> "Sure, which date would you like?" ],
      [ ok |-> FALSE, text |-> "Connection error" ] }

\* the messages sent to POST /chat
ChatMessages == { "", "Check Availability", "list MY BOOKINGS", "hello" }

\* POST /chat served from start to end while no other request is in flight
ApiChat(message, now, outcome) ==
    /\ Quiescent
    /\ UNCHANGED << turfs, bookings, disk, inflight >>
    /\ IF message = ""
       THEN /\ resp' = [ NoResp EXCEPT !.op = "chat", !.code = 400, !.ok = FALSE,
                            !.error = "No message provided" ]
            /\ UNCHANGED conversation_history
       ELSE /\ Len(conversation_history) < 2 * MaxTurns
            /\ LET r == process_message(message, now, outcome)
               IN  /\ conversation_history' = r.history
                   /\ resp' = [ NoResp EXCEPT !.op = "chat", !.code = 200,
                                   !.reply = r.reply, !.llm = r.llm ]

\* the transcript after k earlier exchanges, each a user message answered by
\* the completion service
RECURSIVE Transcript(_)
Transcript(k) ==
    IF k = 0 THEN << >>
    ELSE Transcript(k - 1) \o << Turn("user", "question " \o ToString(k)),
                                 Turn("assistant", "answer " \o ToString(k)) >>

\* the transcripts a conversation may have reached when it is observed
PriorTranscripts == { Transcript(k) : k \in 0 .. MaxPriorExchanges }

\* the messages handed to process_message directly
AgentMessages == { "list MY BOOKINGS", "hello" }

\* a conversation observed after some earlier exchanges, the store as
\* constructed
InitContext ==
    /\ turfs = SeededTurfs(EmptyData.turfs)
    /\ bookings = EmptyData.bookings
    /\ disk = Saved(SeededTurfs(EmptyData.turfs), EmptyData.bookings)
    /\ conversation_history \in PriorTranscripts
    /\ resp = [ NoResp EXCEPT !.saved = TRUE ]
    /\ inflight = [ t \in Threads |-> IdleRequest ]

\* agent.process_message called directly and run from start to end while no
\* other call is in progress
ProcessMessage(message, now, outcome) ==
    /\ Quiescent
    /\ Len(conversation_history) <= 2 * MaxPriorExchanges
    /\ LET r == process_message(message, now, outcome)
       IN  /\ conversation_history' = r.history
           /\ resp' = [ NoResp EXCEPT !.op = "process_message",
                                      !.reply = r.reply, !.llm = r.llm ]
    /\ UNCHANGED << turfs, bookings, disk, inflight >>

\* the store after k boundary bookings of successive slots of one day, of
\* which every every-th has since been cancelled (none when every is 0)
StoredBookings(k, every) ==
    [ i \in 1 .. k |->
        [ booking_id |-> "BK" \o Format04d(i),
          turf_id |-> DummyTurf.id,
          customer_name |-> "Asha",
          customer_phone |-> "9000000001",
          customer_email |-> "",
          date |-> DateStr(2),
          time_slot |-> AvailableHours[i],
          duration |-> 1,
          status |-> IF every # 0 /\ i % every = 0 THEN "cancelled" ELSE "confirmed",
          created_at |-> TimeStr(1),
          total_amount |-> DummyTurf.price_per_hour ] ]

\* the stores a listing may be asked of
StoredCollections ==
    { StoredBookings(k, every) : k \in 0 .. MaxStored, every \in { 0, 1, 2, 5 } }

\* a fresh conversation on top of a store that already holds bookings
InitListing ==
    /\ turfs = SeededTurfs(EmptyData.turfs)
    /\ bookings \in StoredCollections
    /\ disk = Saved(turfs, bookings)
    /\ conversation_history = << >>
    /\ resp = [ NoResp EXCEPT !.saved = TRUE ]
    /\ inflight = [ t \in Threads |-> IdleRequest ]

\* the store after MaxBookings boundary bookings made one at a time on day
\* 1, for that day and the next in turn, from 18:00 on
ReadStore ==
    [ i \in 1 .. MaxBookings |->
        [ booking_id |-> "BK" \o Format04d(i),
          turf_id |-> DummyTurf.id,
          customer_name |-> "Asha",
          customer_phone |-> "9000000001",
          customer_email |-> "",
          date |-> DateStr(1 + ((i - 1) % 2)),
          time_slot |-> AvailableHours[12 + ((i + 1) \div 2)],
          duration |-> 1,
          status |-> "confirmed",
          created_at |-> TimeStr(1),
          total_amount |-> DummyTurf.price_per_hour ] ]

\* a fresh conversation on top of that store
InitReads ==
    /\ turfs = SeededTurfs(EmptyData.turfs)
    /\ bookings \in { SubSeq(ReadStore, 1, k) : k \in (MaxBookings - 1) .. MaxBookings }
    /\ disk = Saved(turfs, bookings)
    /\ conversation_history = << >>
    /\ resp = [ NoResp EXCEPT !.saved = TRUE ]
    /\ inflight = [ t \in Threads |-> IdleRequest ]

\* bodies for successive slots of one day, for one hour (no duration key),
\* two hours or three
DurationRequests ==
    { [ k \in Required \cup D |->
          IF k = "duration" THEN d
          ELSE IF k = "time_slot" THEN slot
          ELSE DummyBody[k] ] :
        slot \in { "18:00", "19:00", "20:00" }, d \in { 2, 3 },
        D \in { {}, { "duration" } } }

\* the bodies sent to POST /api/book between chat messages
ChatBookRequests ==
    { f \in CompleteBodies :
        f.turf_id = "turf_001" /\ f.date = "2024-06-01" /\ f.time_slot = "18:00" }

----------------------------------------------------------------------------
(* Requests served by several threads: the handlers and the store take no  *)
(* lock, so the steps of two requests interleave between their reads and   *)
(* writes of self.data and of bookings.json                                *)

\* create requests that have passed the availability check and are going to
\* append a record: their facility exists and they have not appended yet
InProgress ==
    { t \in Threads :
        \/ inflight[t].pc \in { "priced", "numbered" }
        \/ /\ inflight[t].pc = "checked"
           /\ get_turf_by_id(inflight[t].data[1]["turf_id"]) # << >> }

\* app.py 52-61 and database.py 62-68, 72: the body is read and its required
\* fields are checked; check_availability collects from the collection as
\* it is now the records of the facility and date
BookCollect(t, data) ==
    /\ inflight[t].pc \in { "idle", "done" }
    /\ UNCHANGED << turfs, bookings, disk, conversation_history, resp >>
    /\ IF first_missing(data) # << >>
       THEN inflight' = [ inflight EXCEPT ![t] =
                [ IdleRequest EXCEPT !.pc = "done", !.kind = "book",
                     !.data = << data >>, !.code = 400,
                     !.error = "Missing required field: " \o first_missing(data)[1] ] ]
       ELSE inflight' = [ inflight EXCEPT ![t] =
                [ IdleRequest EXCEPT !.pc = "collected", !.kind = "book",
                     !.data = << data >>,
                     !.for_date = bookings_for_date_at(data["turf_id"], data["date"]) ] ]

\* app.py 61-62 and database.py 73-76: the loop of check_availability reads,
\* as they are now, the slot and status of the records collected earlier,
\* up to the first confirmed one that holds the slot.  A status only ever
\* goes from confirmed to cancelled, so what the loop finds is what it
\* would find reading them all at its last read.  A request that is going
\* to append a record passes only while the collection, with the records of
\* the requests already on their way, has room for it.
BookValidate(t) ==
    /\ inflight[t].pc = "collected"
    /\ UNCHANGED << turfs, bookings, disk, conversation_history, resp >>
    /\ LET data == inflight[t].data[1]
           held == inflight[t].for_date
       IN  IF \E k \in DOMAIN held :
                 /\ bookings[held[k]].time_slot = data["time_slot"]
                 /\ bookings[held[k]].status = "confirmed"
           THEN inflight' = [ inflight EXCEPT ![t].pc = "done", ![t].code = 400,
                    ![t].for_date = << >>,
                    ![t].error = "This time slot is already booked" ]
           ELSE /\ get_turf_by_id(data["turf_id"]) # << >>
                      => Len(bookings) + Cardinality(InProgress) < MaxBookings
                /\ inflight' = [ inflight EXCEPT ![t].pc = "checked",
                                                 ![t].for_date = << >> ]

\* app.py 64-71: the facility is looked up and the amount is put in the body
BookPrice(t) ==
    /\ inflight[t].pc = "checked"
    /\ UNCHANGED << turfs, bookings, disk, conversation_history, resp >>
    /\ LET data == inflight[t].data[1]
       IN  IF get_turf_by_id(data["turf_id"]) = << >>
           THEN inflight' = [ inflight EXCEPT ![t].pc = "done", ![t].code = 404,
                                              ![t].error = "Turf not found" ]
           ELSE LET turf == get_turf_by_id(data["turf_id"])[1]
                    duration == Get(data, "duration", 1)
                    details == [ k \in DOMAIN data \cup { "total_amount" } |->
                                   IF k = "total_amount"
                                   THEN turf.price_per_hour * duration
                                   ELSE data[k] ]
                IN  inflight' = [ inflight EXCEPT ![t].pc = "priced",
                                                  ![t].data = << details >> ]

\* database.py 80-93: the id is computed from the count read now and the
\* record is built; the clock reads day now
BookNumber(t, now) ==
    /\ inflight[t].pc = "priced"
    /\ UNCHANGED << turfs, bookings, disk, conversation_history, resp >>
    /\ inflight' = [ inflight EXCEPT ![t].pc = "numbered",
                                     ![t].count = Len(bookings),
                                     ![t].booking = << new_booking(inflight[t].data[1], now) >> ]

\* a plausible repair: availability is checked again before the append
BookAppend_rechecks(t) ==
    /\ inflight[t].pc = "numbered"
    /\ UNCHANGED << turfs, disk, conversation_history, resp >>
    /\ LET booking == inflight[t].booking[1]
       IN  IF check_availability(booking.turf_id, booking.date, booking.time_slot)
           THEN /\ bookings' = Append(bookings, booking)
                /\ inflight' = [ inflight EXCEPT ![t].pc = "appended",
                                                 ![t].at = Len(bookings) + 1 ]
           ELSE /\ inflight' = [ inflight EXCEPT ![t].pc = "done", ![t].code = 400,
                                    ![t].booking = << >>,
                                    ![t].error = "This time slot is already booked" ]
                /\ UNCHANGED bookings

\* a plausible repair: the id is computed at the moment of the append
BookAppend_renumbers(t) ==
    /\ inflight[t].pc = "numbered"
    /\ UNCHANGED << turfs, disk, conversation_history, resp >>
    /\ LET booking == [ inflight[t].booking[1] EXCEPT !.booking_id = next_booking_id ]
       IN  /\ bookings' = Append(bookings, booking)
           /\ inflight' = [ inflight EXCEPT ![t].pc = "appended",
                                            ![t].at = Len(bookings) + 1,
                                            ![t].booking = << booking >> ]

\* database.py 94: the record built earlier is appended
BookAppend(t) ==
    /\ inflight[t].pc = "numbered"
    /\ UNCHANGED << turfs, disk, conversation_history, resp >>
    /\ bookings' = Append(bookings, inflight[t].booking[1])
    /\ inflight' = [ inflight EXCEPT ![t].pc = "appended",
                                     ![t].at = Len(bookings) + 1 ]

\* database.py 100-101: the loop of cancel_booking asks the live collection
\* for the booking after the k-th and compares its booking_id; no further
\* booking ends the request with 404 (app.py 95-96)
CancelLook(t, booking_id, k) ==
    /\ UNCHANGED << turfs, bookings, disk, conversation_history, resp >>
    /\ inflight' = [ inflight EXCEPT ![t] =
          IF k + 1 > Len(bookings)
          THEN [ IdleRequest EXCEPT !.pc = "done", !.kind = "cancel",
                    !.booking_id = booking_id, !.code = 404,
                    !.error = "Booking not found" ]
          ELSE [ IdleRequest EXCEPT
                    !.pc = IF bookings[k + 1].booking_id = booking_id
                           THEN "found" ELSE "seeking",
                    !.kind = "cancel", !.booking_id = booking_id,
                    !.at = k + 1 ] ]

\* app.py 89 and database.py 100-101: a cancel request arrives and its loop
\* looks at the first booking
CancelBegin(t, booking_id) ==
    /\ inflight[t].pc \in { "idle", "done" }
    /\ CancelLook(t, booking_id, 0)

\* database.py 100-101: the loop goes on to the next booking
CancelSeek(t) ==
    /\ inflight[t].pc = "seeking"
    /\ CancelLook(t, inflight[t].booking_id, inflight[t].at)

\* a plausible slip: the loop has no return and marks every booking that
\* carries the id
CancelFlip_every_match(t) ==
    /\ inflight[t].pc = "found"
    /\ UNCHANGED << turfs, disk, conversation_history, resp >>
    /\ bookings' = [ j \in DOMAIN bookings |->
          IF bookings[j].booking_id = inflight[t].booking_id
          THEN [ bookings[j] EXCEPT !.status = "cancelled" ] ELSE bookings[j] ]
    /\ inflight' = [ inflight EXCEPT ![t].pc = "flipped" ]

\* database.py 102: the booking the loop stopped at is marked cancelled
CancelFlip(t) ==
    /\ inflight[t].pc = "found"
    /\ UNCHANGED << turfs, disk, conversation_history, resp >>
    /\ bookings' = cancelled_at(inflight[t].at)
    /\ inflight' = [ inflight EXCEPT ![t].pc = "flipped" ]

\* database.py 25: open(..., 'w') empties bookings.json
SaveOpen(t) ==
    /\ inflight[t].pc \in { "appended", "flipped" }
    /\ UNCHANGED << turfs, bookings, conversation_history, resp >>
    /\ disk' = TruncatedFile
    /\ inflight' = [ inflight EXCEPT ![t].pc = "dumping", ![t].dumped = << >> ]

\* database.py 26: json.dump walks self.data and writes it piece by piece
\* into the file's buffer; this step writes the next booking as it is now
SaveDump(t) ==
    /\ inflight[t].pc = "dumping"
    /\ Len(inflight[t].dumped) < Len(bookings)
    /\ UNCHANGED << turfs, bookings, disk, conversation_history, resp >>
    /\ inflight' = [ inflight EXCEPT ![t].dumped =
          Append(inflight[t].dumped, bookings[Len(inflight[t].dumped) + 1]) ]

\* database.py 26: the walk asks the collection for its next booking, finds
\* none and ends
SaveDumpEnd(t) ==
    /\ inflight[t].pc = "dumping"
    /\ Len(inflight[t].dumped) = Len(bookings)
    /\ UNCHANGED << turfs, bookings, disk, conversation_history, resp >>
    /\ inflight' = [ inflight EXCEPT ![t].pc = "dumped" ]

\* database.py 25-26: leaving the with block flushes the buffer to the file
\* from its start, and save_data returns
SaveClose(t) ==
    /\ inflight[t].pc = "dumped"
    /\ UNCHANGED << turfs, bookings, conversation_history, resp >>
    /\ disk' = WriteOver(disk, Saved(turfs, inflight[t].dumped))
    /\ inflight' = [ inflight EXCEPT ![t].pc = "saved", ![t].dumped = << >> ]

\* database.py 25-26: open() or the flush raises; what the request changed
\* in self.data stays
SaveFails(t, fault) ==
    /\ \/ ~ fault.emptied /\ inflight[t].pc \in { "appended", "flipped" }
       \/ fault.emptied /\ inflight[t].pc = "dumped"
    /\ UNCHANGED << turfs, bookings, disk, conversation_history, resp >>
    /\ inflight' = [ inflight EXCEPT ![t].pc = "raised", ![t].dumped = << >>,
                                     ![t].error = fault.error ]

\* app.py 76-83, 90-99: the request is answered: 200, a create with its
\* record as it is now, or 500 with the text of what save_data raised
Answer(t) ==
    /\ inflight[t].pc \in { "saved", "raised" }
    /\ UNCHANGED << turfs, bookings, disk, conversation_history, resp >>
    /\ inflight' = [ inflight EXCEPT
          ![t].pc = "done", ![t].data = << >>,
          ![t].code = IF inflight[t].pc = "saved" THEN 200 ELSE 500,
          ![t].body = IF inflight[t].pc = "saved" /\ inflight[t].kind = "book"
                      THEN << bookings[inflight[t].at] >> ELSE << >> ]

----------------------------------------------------------------------------
(* POST /chat served by several threads: process_message takes no lock on  *)
(* the one transcript the requests share, and waits for the completion     *)
(* service between its two appends                                         *)

\* chat requests that have appended their user turn and not yet their
\* assistant turn
MidChat ==
    { t \in Threads :
        inflight[t].pc \in { "received", "reading", "listing", "replying", "calling" } }

\* app.py 20-26 and agent.py 67-70: an empty message is answered 400; any
\* other is appended to the transcript as a user turn
ChatBegin(t, message) ==
    /\ inflight[t].pc \in { "idle", "done" }
    /\ UNCHANGED << turfs, bookings, disk, resp >>
    /\ IF message = ""
       THEN /\ inflight' = [ inflight EXCEPT ![t] =
                  [ IdleRequest EXCEPT !.pc = "done", !.kind = "chat", !.code = 400,
                       !.error = "No message provided" ] ]
            /\ UNCHANGED conversation_history
       ELSE /\ Len(conversation_history) + Cardinality(MidChat) < 2 * MaxTurns
            /\ conversation_history' =
                  Append(conversation_history, Turn("user", message))
            /\ inflight' = [ inflight EXCEPT ![t] =
                  [ IdleRequest EXCEPT !.pc = "received", !.kind = "chat",
                       !.message = message ] ]

\* agent.py 73, 112-124: the message is tried for an intent.  For the
\* availability report (128-141) the heading is written and the records of
\* today are collected from the collection as it is now; for the listing
\* (158-160) the collection is tested for being empty now; failing both
\* (83-85) the context is put together from the transcript as it is now.
\* The clock reads day now.
ChatIntent(t, now) ==
    /\ inflight[t].pc = "received"
    /\ UNCHANGED << turfs, bookings, disk, conversation_history, resp >>
    /\ LET intent == special_command(inflight[t].message)
       IN  IF intent = "availability"
           THEN IF turfs = << >>
                THEN inflight' = [ inflight EXCEPT ![t].pc = "replying",
                         ![t].reply = "No turfs available at the moment." ]
                ELSE inflight' = [ inflight EXCEPT ![t].pc = "reading",
                         ![t].reply = availability_heading(turfs[1]),
                         ![t].days = << [ label |-> "Today", date |-> DateStr(now) ],
                                        [ label |-> "Tomorrow",
                                          date |-> DateStr(now + 1) ] >>,
                         ![t].for_date = bookings_for_date_at(turfs[1].id, DateStr(now)) ]
           ELSE IF intent = "bookings"
           THEN IF bookings = << >>
                THEN inflight' = [ inflight EXCEPT ![t].pc = "replying",
                                                   ![t].reply = "No bookings found." ]
                ELSE inflight' = [ inflight EXCEPT ![t].pc = "listing", ![t].at = 0 ]
           ELSE inflight' = [ inflight EXCEPT ![t].pc = "calling",
                    ![t].sent = << Turn("system", get_system_prompt) >>
                                  \o LastN(conversation_history, ContextWindow) ]

\* agent.py 142: the comprehension of booked_slots reads the status of the
\* next of the day's records as it is now and keeps its slot when confirmed
SlotsStatus(t) ==
    /\ inflight[t].pc = "reading" /\ inflight[t].for_date # << >>
    /\ UNCHANGED << turfs, bookings, disk, conversation_history, resp >>
    /\ LET booking == bookings[Head(inflight[t].for_date)]
       IN  inflight' = [ inflight EXCEPT
              ![t].for_date = Tail(inflight[t].for_date),
              ![t].booked_slots =
                 IF booking.status = "confirmed"
                 THEN Append(inflight[t].booked_slots, booking.time_slot)
                 ELSE inflight[t].booked_slots ]

\* agent.py 139-154: the day's records are all read: its lines are written
\* from the slots kept, and the records of the next day are collected from
\* the collection as it is now, or after the last day the report is done
SlotsDay(t) ==
    /\ inflight[t].pc = "reading" /\ inflight[t].for_date = << >>
    /\ UNCHANGED << turfs, bookings, disk, conversation_history, resp >>
    /\ LET turf == turfs[1]
           day == Head(inflight[t].days)
           rest == Tail(inflight[t].days)
           booked_slots == inflight[t].booked_slots
           available_slots ==
               SelectSeq(turf.available_hours,
                         LAMBDA slot : ~ \E i \in DOMAIN booked_slots :
                                             booked_slots[i] = slot)
           info == inflight[t].reply
                     \o availability_section(day.label, day.date, available_slots)
       IN  inflight' = [ inflight EXCEPT
              ![t].pc = IF rest = << >> THEN "replying" ELSE "reading",
              ![t].reply = info,
              ![t].days = rest,
              ![t].booked_slots = << >>,
              ![t].for_date = IF rest = << >> THEN << >>
                              ELSE bookings_for_date_at(turf.id, Head(rest).date) ]

\* agent.py 162: the comprehension of confirmed_bookings asks the live
\* collection for its next booking, reads its status as it is now and
\* keeps the booking when confirmed
ListingStatus(t) ==
    /\ inflight[t].pc = "listing" /\ inflight[t].at < Len(bookings)
    /\ UNCHANGED << turfs, bookings, disk, conversation_history, resp >>
    /\ LET i == inflight[t].at + 1
       IN  inflight' = [ inflight EXCEPT
              ![t].at = i,
              ![t].confirmed_bookings =
                 IF bookings[i].status = "confirmed"
                 THEN Append(inflight[t].confirmed_bookings, i)
                 ELSE inflight[t].confirmed_bookings ]

\* agent.py 162-173: the comprehension finds no further booking; the
\* listing is written from the last ten of the bookings kept
ListingEnd(t) ==
    /\ inflight[t].pc = "listing" /\ inflight[t].at = Len(bookings)
    /\ UNCHANGED << turfs, bookings, disk, conversation_history, resp >>
    /\ LET shown == LastN(inflight[t].confirmed_bookings, BookingsShown)
       IN  inflight' = [ inflight EXCEPT
              ![t].pc = "replying", ![t].at = 0, ![t].confirmed_bookings = << >>,
              ![t].reply =
                 IF shown = << >> THEN "No confirmed bookings at the moment."
                 ELSE "**Current Bookings:**\n\n"
                        \o Join([ k \in DOMAIN shown |->
                                    booking_entry(bookings[shown[k]]) ], "") ]

\* agent.py 75-79 and app.py 31-34: the intent's reply is appended as an
\* assistant turn and returned
ChatReply(t) ==
    /\ inflight[t].pc = "replying"
    /\ UNCHANGED << turfs, bookings, disk, resp >>
    /\ conversation_history' =
          Append(conversation_history, Turn("assistant", inflight[t].reply))
    /\ inflight' = [ inflight EXCEPT ![t].pc = "done", ![t].code = 200 ]

\* agent.py 87-109 and app.py 31-34: the completion service answers or
\* fails; its text, or the apology, is appended as an assistant turn and
\* returned
ChatAnswer(t, outcome) ==
    /\ inflight[t].pc = "calling"
    /\ UNCHANGED << turfs, bookings, disk, resp >>
    /\ LET reply == IF outcome.ok THEN outcome.text ELSE error_message(outcome.text)
       IN  /\ conversation_history' =
                 Append(conversation_history, Turn("assistant", reply))
           /\ inflight' = [ inflight EXCEPT ![t].pc = "done", ![t].code = 200,
                                            ![t].reply = reply ]

----------------------------------------------------------------------------
(* Specifications *)

\* boundary requests, each run to completion before the next starts
Next ==
    \/ \E data \in BookRequests : ApiBook(data, { 1 }, FlushFaults)
    \/ \E id \in CancelIds : ApiCancel(id, FlushFaults)
    \/ \E turf_id \in TurfIds, date \in DateInputs : ApiAvailability(turf_id, date)

Spec == Init /\ [][Next]_vars

\* the engine's operations called directly, one at a time
NextEngine ==
    \/ \E d \in EngineDetails, now \in Days : DbCreateBooking(d, now)
    \/ \E id \in CancelIds : DbCancelBooking(id)

SpecEngine == Init /\ [][NextEngine]_vars

\* chat messages between boundary requests, one at a time
NextChat ==
    \/ \E message \in ChatMessages, now \in Days, outcome \in LlmOutcomes :
          ApiChat(message, now, outcome)
    \/ \E data \in ChatBookRequests : ApiBook(data, { 1 }, FlushFaults)
    \/ \E id \in CancelIds : ApiCancel(id, FlushFaults)

SpecChat == Init /\ [][NextChat]_vars

\* messages handled one at a time on top of an earlier conversation
NextContext ==
    \E message \in AgentMessages, outcome \in LlmOutcomes :
        ProcessMessage(message, 1, outcome)

SpecContext == InitContext /\ [][NextContext]_vars

\* chat messages on top of a store that already holds bookings
NextListing ==
    \E message \in AgentMessages, outcome \in LlmOutcomes : ApiChat(message, 1, outcome)

SpecListing == InitListing /\ [][NextListing]_vars

\* boundary requests for successive slots of one day, with durations
NextDuration ==
    \/ \E data \in DurationRequests : ApiBook(data, { 1 }, FlushFaults)
    \/ \E id \in CancelIds : ApiCancel(id, FlushFaults)
    \/ ApiAvailability("turf_001", "2024-06-01")

SpecDuration == Init /\ [][NextDuration]_vars

\* the engine's operations with a store that may fail to write, and restarts
NextStore ==
    \/ \E d \in EngineDetails, now \in { 1 } : DbCreateBooking(d, now)
    \/ \E id \in CancelIds : DbCancelBooking(id)
    \/ \E d \in EngineDetails, now \in { 1 } : DbCreateBookingSaveFails(d, now)
    \/ \E id \in CancelIds : DbCancelBookingSaveFails(id)
    \/ Restart

SpecStore == Init /\ [][NextStore]_vars

\* create and cancel requests served by two threads, their steps interleaved
NextRace ==
    \/ \E t \in Threads, data \in RaceRequests : BookCollect(t, data)
    \/ \E t \in Threads : BookValidate(t)
    \/ \E t \in Threads : BookPrice(t)
    \/ \E t \in Threads, now \in { 1 } : BookNumber(t, now)
    \/ \E t \in Threads : BookAppend(t)
    \/ \E t \in Threads, id \in RaceCancelIds : CancelBegin(t, id)
    \/ \E t \in Threads : CancelSeek(t)
    \/ \E t \in Threads : CancelFlip(t)
    \/ \E t \in Threads : SaveOpen(t)
    \/ \E t \in Threads : SaveDump(t)
    \/ \E t \in Threads : SaveDumpEnd(t)
    \/ \E t \in Threads : SaveClose(t)
    \/ \E t \in Threads, fault \in StorageFaults : SaveFails(t, fault)
    \/ \E t \in Threads : Answer(t)

SpecRace == Init /\ [][NextRace]_vars

\* the same threads, with cancels that reach past the first booking
NextCancelRace ==
    \/ \E t \in Threads, data \in CancelRaceRequests : BookCollect(t, data)
    \/ \E t \in Threads : BookValidate(t)
    \/ \E t \in Threads : BookPrice(t)
    \/ \E t \in Threads, now \in { 1 } : BookNumber(t, now)
    \/ \E t \in Threads : BookAppend(t)
    \/ \E t \in Threads, id \in CancelRaceIds : CancelBegin(t, id)
    \/ \E t \in Threads : CancelSeek(t)
    \/ \E t \in Threads : CancelFlip(t)
    \/ \E t \in Threads : SaveOpen(t)
    \/ \E t \in Threads : SaveDump(t)
    \/ \E t \in Threads : SaveDumpEnd(t)
    \/ \E t \in Threads : SaveClose(t)
    \/ \E t \in Threads, fault \in StorageFaults : SaveFails(t, fault)
    \/ \E t \in Threads : Answer(t)

SpecCancelRace == Init /\ [][NextCancelRace]_vars

\* chat requests served by two threads, their steps interleaved
NextChatRace ==
    \/ \E t \in Threads, message \in ChatMessages : ChatBegin(t, message)
    \/ \E t \in Threads, now \in Days : ChatIntent(t, now)
    \/ \E t \in Threads : SlotsDay(t)
    \/ \E t \in Threads : ChatReply(t)
    \/ \E t \in Threads, outcome \in LlmOutcomes : ChatAnswer(t, outcome)

SpecChatRace == Init /\ [][NextChatRace]_vars

\* chat requests that ask for a report, served by two threads together
\* with create and cancel requests, their steps interleaved
NextReadRace ==
    \/ \E t \in Threads, message \in ReadMessages : ChatBegin(t, message)
    \/ \E t \in Threads, now \in { 1 } : ChatIntent(t, now)
    \/ \E t \in Threads : SlotsStatus(t)
    \/ \E t \in Threads : SlotsDay(t)
    \/ \E t \in Threads : ListingStatus(t)
    \/ \E t \in Threads : ListingEnd(t)
    \/ \E t \in Threads : ChatReply(t)
    \/ \E t \in Threads, data \in ReadRaceRequests : BookCollect(t, data)
    \/ \E t \in Threads : BookValidate(t)
    \/ \E t \in Threads : BookPrice(t)
    \/ \E t \in Threads, now \in { 1 } : BookNumber(t, now)
    \/ \E t \in Threads : BookAppend(t)
    \/ \E t \in Threads, id \in CancelRaceIds : CancelBegin(t, id)
    \/ \E t \in Threads : CancelSeek(t)
    \/ \E t \in Threads : CancelFlip(t)
    \/ \E t \in Threads : SaveOpen(t)
    \/ \E t \in Threads : SaveDump(t)
    \/ \E t \in Threads : SaveDumpEnd(t)
    \/ \E t \in Threads : SaveClose(t)
    \/ \E t \in Threads, fault \in StorageFaults : SaveFails(t, fault)
    \/ \E t \in Threads : Answer(t)

SpecReadRace == InitReads /\ [][NextReadRace]_vars

----------------------------------------------------------------------------
(* Vocabulary of the properties, stated on the data alone *)

Confirmed(b) == b.status = "confirmed"

SameTriple(a, b) ==
    a.turf_id = b.turf_id /\ a.date = b.date /\ a.time_slot = b.time_slot

\* some confirmed booking of the collection bs holds the triple
Held(bs, turf_id, date, time_slot) ==
    \E i \in DOMAIN bs :
        /\ bs[i].turf_id = turf_id /\ bs[i].date = date /\ bs[i].time_slot = time_slot
        /\ bs[i].status = "confirmed"

FacilityExists(turf_id) == \E i \in DOMAIN turfs : turfs[i].id = turf_id

\* the first booking in creation order carrying the id, 0 when there is none
FirstWithId(id) ==
    IF \E i \in DOMAIN bookings : bookings[i].booking_id = id
    THEN CHOOSE i \in DOMAIN bookings :
            /\ bookings[i].booking_id = id
            /\ \A j \in 1 .. (i - 1) : bookings[j].booking_id # id
    ELSE 0

Digit == << "0", "1", "2", "3", "4", "5", "6", "7", "8", "9" >>

\* "BK" followed by the four decimal digits of k, for k below 10000
IdOfSequenceNumber(k) ==
    "BK" \o Digit[((k \div 1000) % 10) + 1] \o Digit[((k \div 100) % 10) + 1]
         \o Digit[((k \div 10) % 10) + 1] \o Digit[(k % 10) + 1]

ElementsOf(seq) == { seq[i] : i \in DOMAIN seq }

\* res lists, in the order of hours and without repetition, exactly the
\* slots of hours that no confirmed booking holds for the facility and date
IsFreeSlotList(res, hours, turf_id, date) ==
    /\ ElementsOf(res) =
          { hours[i] : i \in { n \in DOMAIN hours : ~ Held(bookings, turf_id, date, hours[n]) } }
    /\ Cardinality(ElementsOf(res)) = Len(res)
    /\ \A i \in 1 .. (Len(res) - 1) :
          \E m \in DOMAIN hours :
              /\ hours[m] = res[i]
              /\ \E n \in (m + 1) .. Len(hours) : hours[n] = res[i + 1]

----------------------------------------------------------------------------
(* Properties *)

\* C1: after any sequence of boundary create and cancel requests run one at a
\* time, no two confirmed bookings hold the same (turf_id, date, time_slot);
\* cancelled bookings of the triple do not count.
C1_SlotUniqueness ==
    \A i, j \in DOMAIN bookings :
        (i < j /\ Confirmed(bookings[i]) /\ Confirmed(bookings[j]))
            => ~ SameTriple(bookings[i], bookings[j])

\* a cancelled and a confirmed booking of one triple coexist
C1_Witness ==
    \E i, j \in DOMAIN bookings :
        /\ i < j /\ SameTriple(bookings[i], bookings[j])
        /\ bookings[i].status = "cancelled" /\ Confirmed(bookings[j])

\* C2: the k-th booking ever created carries the id BK + k padded to four
\* digits, whatever was cancelled before it; hence ids increase in creation
\* order and no two bookings share one.
C2_BookingIdIsSequenceNumber ==
    /\ \A k \in DOMAIN bookings : bookings[k].booking_id = IdOfSequenceNumber(k)
    /\ \A i, j \in DOMAIN bookings :
          i # j => bookings[i].booking_id # bookings[j].booking_id

\* a booking created after a cancellation took the next number
C2_Witness ==
    /\ Len(bookings) >= 2
    /\ bookings[1].status = "cancelled"
    /\ bookings[2].booking_id = "BK0002"
    /\ resp.op = "db.create_booking"

\* C3 as stated: right after a confirmed booking is cancelled by its id, its
\* triple is available again.
C3_AvailableAfterCancel ==
    [][ \A id \in CancelIds :
          LET i == FirstWithId(id)
          IN  ( /\ resp'.op = "db.cancel_booking" /\ i # 0 /\ Confirmed(bookings[i])
                /\ DbCancelBooking(id) )
                => check_availability(bookings[i].turf_id, bookings[i].date,
                                      bookings[i].time_slot)' ]_vars

\* C3 amended: right after a booking is created its triple is unavailable;
\* right after a booking is cancelled by its id its triple is available
\* exactly when no other confirmed booking holds it.
C3_AvailabilityFollowsConfirmed ==
    [][ /\ \A d \in EngineDetails, now \in Days :
              (resp'.op = "db.create_booking" /\ DbCreateBooking(d, now))
                => ~ check_availability(d["turf_id"], d["date"], d["time_slot"])'
        /\ \A id \in CancelIds :
              LET i == FirstWithId(id)
              IN  (resp'.op = "db.cancel_booking" /\ i # 0 /\ DbCancelBooking(id))
                    => ( check_availability(bookings[i].turf_id, bookings[i].date,
                                            bookings[i].time_slot)'
                         <=> ~ \E j \in DOMAIN bookings :
                                   /\ j # i /\ Confirmed(bookings[j])
                                   /\ SameTriple(bookings[j], bookings[i]) ) ]_vars

\* a cancellation has just freed the slot of the booking it cancelled
C3_Witness ==
    /\ resp.op = "db.cancel_booking" /\ resp.ok
    /\ \E i \in DOMAIN bookings :
          /\ bookings[i].status = "cancelled"
          /\ check_availability(bookings[i].turf_id, bookings[i].date,
                                bookings[i].time_slot)

\* C4: for every facility and date the available-slots result of the
\* endpoint and of the dispatcher's report is the sub-list of
\* available_hours, in order, of exactly the slots without a confirmed
\* booking, and the endpoint returned that list.
C4_AvailableSlotsExact ==
    /\ \A t \in DOMAIN turfs, date \in DateInputs :
          /\ IsFreeSlotList(api_available_slots(turfs[t], date),
                            turfs[t].available_hours, turfs[t].id, date)
          /\ IsFreeSlotList(agent_available_slots(turfs[t], date),
                            turfs[t].available_hours, turfs[t].id, date)
    /\ (resp.op = "availability" /\ resp.code = 200)
          => \E t \in DOMAIN turfs :
                /\ turfs[t].id = resp.turf_id
                /\ IsFreeSlotList(resp.available_slots, turfs[t].available_hours,
                                  resp.turf_id, resp.date)

\* the endpoint listed a slot that only a cancelled booking holds
C4_Witness ==
    /\ resp.op = "availability" /\ resp.code = 200
    /\ \E i \in DOMAIN bookings :
          /\ bookings[i].status = "cancelled"
          /\ bookings[i].turf_id = resp.turf_id /\ bookings[i].date = resp.date
          /\ bookings[i].time_slot \in ElementsOf(resp.available_slots)
    /\ \E i \in DOMAIN bookings : Confirmed(bookings[i])

\* C5: cancelBooking with an id no booking carries returns false, writes
\* nothing and leaves bookings, facilities and the stored file as they were.
C5_CancelUnknownIsNoOp ==
    [][ \A id \in CancelIds :
          ( /\ resp'.op = "db.cancel_booking"
            /\ \A i \in DOMAIN bookings : bookings[i].booking_id # id
            /\ DbCancelBooking(id) )
            => /\ resp'.ok = FALSE /\ resp'.saved = FALSE
               /\ bookings' = bookings /\ turfs' = turfs /\ disk' = disk ]_vars

\* an unknown id was refused while bookings exist
C5_Witness ==
    /\ resp.op = "db.cancel_booking" /\ ~ resp.ok
    /\ Len(bookings) >= 1

ConflictRejected ==
    /\ resp'.code = 400 /\ resp'.error = "This time slot is already booked"
    /\ bookings' = bookings /\ disk' = disk

\* C6 as stated: every boundary create request naming a triple that a
\* confirmed booking holds gets the conflict result and changes nothing.
C6_ConflictRejected ==
    [][ \A data \in BookRequests :
          ( /\ resp'.op = "book"
            /\ { "turf_id", "date", "time_slot" } \subseteq DOMAIN data
            /\ Held(bookings, data["turf_id"], data["date"], data["time_slot"])
            /\ ApiBook(data, { 1 }, FlushFaults) )
            => ConflictRejected ]_vars

\* C6 amended: the same for requests that carry every required field; a
\* request lacking one is refused as well and changes nothing, with the
\* missing-field result.
C6_CompleteConflictRejected ==
    [][ \A data \in BookRequests :
          ( /\ resp'.op = "book"
            /\ { "turf_id", "date", "time_slot" } \subseteq DOMAIN data
            /\ Held(bookings, data["turf_id"], data["date"], data["time_slot"])
            /\ ApiBook(data, { 1 }, FlushFaults) )
            => IF Required \subseteq DOMAIN data
               THEN ConflictRejected
               ELSE /\ resp'.code = 400 /\ resp'.booking = << >>
                    /\ bookings' = bookings /\ disk' = disk ]_vars

\* a conflict was reported
C6_Witness ==
    /\ resp.op = "book" /\ resp.code = 400
    /\ resp.error = "This time slot is already booked"
    /\ \E i \in DOMAIN bookings : Confirmed(bookings[i])

\* C7: every booking's time_slot is one of the available_hours of the
\* facility its turf_id names.
C7_SlotInAvailableHours ==
    \A i \in DOMAIN bookings :
        \E t \in DOMAIN turfs :
            /\ turfs[t].id = bookings[i].turf_id
            /\ bookings[i].time_slot \in ElementsOf(turfs[t].available_hours)

NotFoundRejected ==
    /\ resp'.code = 404 /\ resp'.error = "Turf not found"
    /\ bookings' = bookings /\ disk' = disk

\* C8 as stated: every boundary create request whose turf_id names no
\* facility gets the not-found result and adds no booking.
C8_UnknownTurfNotFound ==
    [][ \A data \in BookRequests :
          ( /\ resp'.op = "book"
            /\ "turf_id" \in DOMAIN data /\ ~ FacilityExists(data["turf_id"])
            /\ ApiBook(data, { 1 }, FlushFaults) )
            => NotFoundRejected ]_vars

\* C8 amended: such a request adds no booking; it gets the not-found result
\* when it carries every required field and the missing-field result
\* otherwise; every booking names an existing facility.
C8_UnknownTurfRejected ==
    [][ /\ \A data \in BookRequests :
              ( /\ resp'.op = "book"
                /\ "turf_id" \in DOMAIN data /\ ~ FacilityExists(data["turf_id"])
                /\ ApiBook(data, { 1 }, FlushFaults) )
                => IF Required \subseteq DOMAIN data
                   THEN NotFoundRejected
                   ELSE /\ resp'.code = 400 /\ resp'.booking = << >>
                        /\ bookings' = bookings /\ disk' = disk
        /\ \A i \in DOMAIN bookings' : FacilityExists(bookings'[i].turf_id) ]_vars

\* an unknown facility was refused while bookings exist
C8_Witness ==
    /\ resp.op = "book" /\ resp.code = 404 /\ resp.error = "Turf not found"
    /\ Len(bookings) >= 1

\* messages that ask for the availability report, by inspection of their text
AvailabilityMessages ==
    { "Check Availability", "any available slots?", "my bookings, then check availability" }

\* messages that ask for the booking listing and not for availability
ListingMessages == { "show bookings", "View Bookings please", "list MY BOOKINGS" }

\* messages that match no phrase (a misspelling, a doubled space)
PlainMessages == { "hello", "check availabilty", "show  bookings" }

\* the slots of the facility no confirmed booking holds on the date
FreeSlots(turf, date) ==
    SelectSeq(turf.available_hours, LAMBDA s : ~ Held(bookings, turf.id, date, s))

\* the availability report for the first facility on the day of now and the next
ReportFor(now) ==
    availability_heading(turfs[1])
        \o availability_section("Today", DateStr(now), FreeSlots(turfs[1], DateStr(now)))
        \o availability_section("Tomorrow", DateStr(now + 1),
                                FreeSlots(turfs[1], DateStr(now + 1)))

\* the listing of the current confirmed bookings
ListingNow ==
    LET idx == { i \in DOMAIN bookings : Confirmed(bookings[i]) }
        conf == SelectSeq(bookings, Confirmed)
    IN  IF bookings = << >> THEN "No bookings found."
        ELSE IF idx = {} THEN "No confirmed bookings at the moment."
        ELSE "**Current Bookings:**\n\n"
               \o Join([ i \in 1 .. (IF Len(conf) > 10 THEN 10 ELSE Len(conf)) |->
                           booking_entry(conf[Len(conf) - (IF Len(conf) > 10 THEN 10
                                                           ELSE Len(conf)) + i]) ], "")

\* C9 as stated: a handle call on a message containing an availability or
\* a listing phrase, in any letter case, never calls the completion
\* service; its reply, when it is made, is the availability report for
\* today and tomorrow, or the listing, of the bookings as they are; and the
\* reply is appended as an assistant turn as it is returned.
C9_IntentsBypassCompletion ==
    [][ \A t \in Threads :
          LET r == inflight[t]
              after == inflight'[t]
          IN  ( /\ after.kind = "chat" /\ after # r
                /\ after.message \in AvailabilityMessages \cup ListingMessages )
                => /\ after.pc # "calling" /\ after.sent = << >>
                   /\ ( r.pc # "replying" /\ after.pc = "replying" )
                        => /\ bookings' = bookings
                           /\ IF after.message \in AvailabilityMessages
                              THEN \E now \in Days : after.reply = ReportFor(now)
                              ELSE after.reply = ListingNow
                   /\ ( r.pc = "replying" /\ after.pc = "done" )
                        => /\ after.code = 200 /\ after.reply = r.reply
                           /\ conversation_history' =
                                 Append(conversation_history,
                                        Turn("assistant", r.reply)) ]_vars

\* handled one at a time, a call on a message containing an availability or
\* a listing phrase, in any letter case, does not call the completion
\* service, replies with the report or listing of the current bookings and
\* appends the user turn and then that reply as an assistant turn
C9_OneAtATime ==
    /\ \A m \in AvailabilityMessages \cup ListingMessages,
          now \in Days, outcome \in { o \in LlmOutcomes : ~ o.ok } :
          process_message(m, now, outcome)
            = LET reply == IF m \in AvailabilityMessages THEN ReportFor(now) ELSE ListingNow
              IN  [ history |-> conversation_history
                                  \o << Turn("user", m), Turn("assistant", reply) >>,
                    reply |-> reply,
                    llm |-> << >> ]
    /\ ( /\ resp.op = "chat" /\ resp.code = 200
         /\ conversation_history[Len(conversation_history) - 1].content
               \in AvailabilityMessages \cup ListingMessages )
          => /\ resp.llm = << >>
             /\ conversation_history[Len(conversation_history)]
                   = Turn("assistant", resp.reply)
             /\ \/ resp.reply = ListingNow
                \/ \E now \in Days : resp.reply = ReportFor(now)

\* a chat call was answered from the bookings without the completion service
C9_OneAtATimeReached ==
    /\ resp.op = "chat" /\ resp.code = 200 /\ resp.llm = << >>
    /\ \E i \in DOMAIN bookings : Confirmed(bookings[i])
    /\ \E i \in DOMAIN bookings : bookings[i].status = "cancelled"
    /\ conversation_history[Len(conversation_history)] = Turn("assistant", resp.reply)

FailedCall(r) == r.op = "chat" /\ r.llm # << >> /\ ~ r.llm[1].outcome.ok

\* C10: when the completion service fails, handle returns the apology that
\* embeds the error text, appends the user turn and the apology, leaves
\* bookings, facilities and the stored file alone, and the next handle call
\* is processed as usual.
C10_CompletionFailureAbsorbed ==
    [][ LET n == Len(conversation_history)
        IN  /\ FailedCall(resp')
                => /\ resp'.code = 200
                   /\ resp'.reply = "I apologize, but I encountered an error: "
                                      \o resp'.llm[1].outcome.text \o ". Please try again."
                   /\ Len(conversation_history') = n + 2
                   /\ SubSeq(conversation_history', 1, n) = conversation_history
                   /\ conversation_history'[n + 1].role = "user"
                   /\ conversation_history'[n + 1].content \in PlainMessages
                   /\ conversation_history'[n + 2] = Turn("assistant", resp'.reply)
                   /\ bookings' = bookings /\ turfs' = turfs /\ disk' = disk
            /\ (FailedCall(resp) /\ resp'.op = "chat" /\ resp'.code = 200)
                => /\ Len(conversation_history') = n + 2
                   /\ SubSeq(conversation_history', 1, n) = conversation_history
                   /\ conversation_history'[n + 2] = Turn("assistant", resp'.reply) ]_vars

\* a call was answered after an earlier call had ended in the apology
C10_Witness ==
    /\ Len(conversation_history) >= 4
    /\ conversation_history[2] = Turn("assistant",
          "I apologize, but I encountered an error: Connection error. Please try again.")
    /\ resp.op = "chat" /\ resp.code = 200 /\ ~ FailedCall(resp)
    /\ Len(bookings) >= 1


\* the stage a create request moves to from each stage between the check
\* and the append
NextStage(pc) ==
    CASE pc = "checked" -> "priced"
      [] pc = "priced" -> "numbered"
      [] pc = "numbered" -> "appended"

\* the texts of the storage faults
FaultTexts == { f.error : f \in StorageFaults }

\* C11: a create request that has passed the availability check is never
\* checked again.  Whatever another request appends between its check and its
\* own append, every later step of it (the facility existing) moves on, its
\* append adds a confirmed booking for its triple at the end of the
\* collection, and from then on it only writes the file and returns 200
\* with its record, or 500 naming a storage fault; so two requests for one
\* triple that both check before either appends both succeed.
C11_CheckThenActRace ==
    [][ \A t \in Threads :
          LET r == inflight[t]
              after == inflight'[t]
          IN  /\ ( /\ r.kind = "book"
                   /\ r.pc \in { "checked", "priced", "numbered" }
                   /\ after # r
                   /\ FacilityExists(r.data[1]["turf_id"]) )
                   => /\ after.pc = NextStage(r.pc)
                      /\ r.pc = "numbered" =>
                           /\ Len(bookings') = Len(bookings) + 1
                           /\ SubSeq(bookings', 1, Len(bookings)) = bookings
                           /\ Confirmed(bookings'[Len(bookings')])
                           /\ bookings'[Len(bookings')].turf_id = r.data[1]["turf_id"]
                           /\ bookings'[Len(bookings')].date = r.data[1]["date"]
                           /\ bookings'[Len(bookings')].time_slot = r.data[1]["time_slot"]
                           /\ after.at = Len(bookings')
              /\ ( /\ r.kind = "book"
                   /\ r.pc \in { "appended", "dumping", "dumped", "saved", "raised" }
                   /\ after.pc # r.pc )
                   => /\ after.pc \in { "dumping", "dumped", "saved", "raised", "done" }
                      /\ after.pc = "done" =>
                           \/ /\ after.code = 200 /\ after.error = ""
                              /\ after.body = << bookings'[r.at] >>
                           \/ after.code = 500 /\ after.error \in FaultTexts ]_vars

\* both requests have returned 200 and two confirmed bookings hold one triple
C11_Witness ==
    /\ \A t \in Threads :
          /\ inflight[t].kind = "book"
          /\ inflight[t].pc = "done" /\ inflight[t].code = 200
          /\ Confirmed(inflight[t].body[1])
    /\ inflight[1].at # inflight[2].at
    /\ SameTriple(inflight[1].body[1], inflight[2].body[1])
    /\ \E i, j \in DOMAIN bookings :
          /\ i < j /\ SameTriple(bookings[i], bookings[j])
          /\ Confirmed(bookings[i]) /\ Confirmed(bookings[j])
          /\ { i, j } = { inflight[1].at, inflight[2].at }


\* C12: cancelled is terminal.  Across any engine create or cancel, a
\* cancelled booking stays in place and stays cancelled, no booking that
\* existed before the step is confirmed after it unless it was confirmed
\* before, and cancelling an already cancelled booking returns true and
\* leaves the collection as it was.
C12_CancelledIsTerminal ==
    [][ /\ \A i \in DOMAIN bookings :
              bookings[i].status = "cancelled"
                  => i \in DOMAIN bookings' /\ bookings'[i].status = "cancelled"
        /\ \A i \in DOMAIN bookings \cap DOMAIN bookings' :
              bookings'[i].status = "confirmed" => bookings[i].status = "confirmed"
        /\ \A id \in CancelIds :
              LET i == FirstWithId(id)
              IN  ( /\ resp'.op = "db.cancel_booking" /\ i # 0
                    /\ bookings[i].status = "cancelled"
                    /\ DbCancelBooking(id) )
                    => resp'.ok /\ bookings' = bookings ]_vars

\* a booking cancelled before a later one was created is still cancelled
\* after a further successful cancel
C12_Witness ==
    /\ Len(bookings) = 2
    /\ bookings[1].status = "cancelled" /\ bookings[2].status = "cancelled"
    /\ bookings[1].created_at # bookings[2].created_at
    /\ resp.op = "db.cancel_booking" /\ resp.ok

\* C13: the booking collection is append-only.  No step shortens or reorders
\* it; a create adds exactly one record at the end and leaves the others as
\* they were; a cancel keeps the length; and an existing record changes, if at
\* all, only in its status, from confirmed to cancelled.
C13_AppendOnly ==
    [][ /\ Len(bookings') >= Len(bookings)
        /\ \A i \in DOMAIN bookings :
              \/ bookings'[i] = bookings[i]
              \/ /\ bookings[i].status = "confirmed"
                 /\ bookings'[i] = [ bookings[i] EXCEPT !.status = "cancelled" ]
        /\ resp'.op = "db.create_booking" =>
              /\ Len(bookings') = Len(bookings) + 1
              /\ SubSeq(bookings', 1, Len(bookings)) = bookings
        /\ resp'.op = "db.cancel_booking" => Len(bookings') = Len(bookings) ]_vars

\* a record was appended after an earlier one had been cancelled, and kept
\* its place and its other fields
C13_Witness ==
    /\ Len(bookings) = 2
    /\ bookings[1].status = "cancelled" /\ bookings[1].booking_id = "BK0001"
    /\ bookings[2].status = "confirmed" /\ bookings[2].duration = 2
    /\ resp.op = "db.create_booking" /\ resp.booking = << bookings[2] >>


\* C14: write-through.  Whenever every request being served has returned
\* and the ones last served by the threads were mutations that returned
\* without a storage failure, bookings.json holds a whole document whose
\* load equals the in-memory facilities and bookings.
C14_WriteThrough ==
    ( /\ \E t \in Threads : inflight[t].pc = "done"
      /\ \A t \in Threads :
            \/ inflight[t].pc = "idle"
            \/ inflight[t].pc = "done" /\ inflight[t].code = 200 )
        => /\ disk.complete
           /\ JsonLoad(disk) = [ turfs |-> turfs, bookings |-> bookings ]


\* a create request that has read the booking count and built its record
Numbered(r) == r.kind = "book" /\ r.booking # << >>

\* C15: two create calls that read the same booking count, that is, that both
\* read it before either appends, hold the same booking_id; each appends its
\* record under that id, so once both have appended two bookings of the
\* collection share a booking_id.
C15_IdCollision ==
    \A t, u \in Threads :
        ( /\ t # u /\ Numbered(inflight[t]) /\ Numbered(inflight[u])
          /\ inflight[t].count = inflight[u].count )
            => /\ inflight[t].booking[1].booking_id = inflight[u].booking[1].booking_id
               /\ (inflight[t].at # 0 /\ inflight[u].at # 0)
                    => /\ inflight[t].at # inflight[u].at
                       /\ \A i \in { inflight[t].at, inflight[u].at } :
                             bookings[i].booking_id
                                 = inflight[t].booking[1].booking_id

\* both calls have returned, for different dates, and their bookings share
\* an id
C15_Witness ==
    /\ \A t \in Threads :
          /\ inflight[t].kind = "book"
          /\ inflight[t].pc = "done" /\ inflight[t].code = 200
    /\ inflight[1].count = inflight[2].count
    /\ Len(bookings) = 2
    /\ bookings[1].booking_id = bookings[2].booking_id
    /\ bookings[1].date # bookings[2].date


\* the step of thread t in which cancel_booking marks the booking its loop
\* stopped at
CancelMarks(t) ==
    /\ inflight[t].kind = "cancel" /\ inflight[t].pc = "found"
    /\ inflight'[t].pc = "flipped"

\* the bookings whose status differs before and after a step
StatusesChanged ==
    { j \in DOMAIN bookings : bookings'[j].status # bookings[j].status }

\* what the marking step of thread t touches: the status of the first
\* booking in creation order carrying the id becomes cancelled; every other
\* booking, every other field of that booking and the facility list stay,
\* and a triple held by another confirmed booking stays unavailable
CancelFrame(t) ==
    LET i == inflight[t].at
    IN  /\ i # 0 /\ i = FirstWithId(inflight[t].booking_id)
        /\ inflight'[t].at = i
        /\ Len(bookings') = Len(bookings)
        /\ bookings'[i] = [ bookings[i] EXCEPT !.status = "cancelled" ]
        /\ \A j \in DOMAIN bookings \ { i } : bookings'[j] = bookings[j]
        /\ turfs' = turfs
        /\ \A j \in DOMAIN bookings \ { i } :
              Confirmed(bookings[j])
                  => ~ check_availability(bookings[j].turf_id,
                                          bookings[j].date,
                                          bookings[j].time_slot)'

\* every other step of a cancel request of thread t, its loop before the
\* marking and the writing of the file and the answer after it, changes no
\* booking and no facility, and the request is answered 200, 404 when no
\* booking carries the id, or 500 with the text of a failed write
CancelRest(t) ==
    LET r == inflight[t]
        after == inflight'[t]
    IN  /\ ( /\ after.kind = "cancel" /\ after.pc # r.pc
             /\ after.pc \in { "seeking", "found" } )
             => /\ bookings' = bookings /\ turfs' = turfs
                /\ \A j \in 1 .. (after.at - 1) :
                      bookings[j].booking_id # after.booking_id
                /\ after.pc = "found"
                      <=> bookings[after.at].booking_id = after.booking_id
        /\ ( /\ r.kind = "cancel" /\ after.pc # r.pc
             /\ r.pc \in { "seeking", "flipped", "dumping", "dumped",
                            "saved", "raised" } )
             => /\ bookings' = bookings /\ turfs' = turfs
                /\ after.pc = "done" =>
                      \/ after.code = 200 /\ after.error = ""
                      \/ /\ after.code = 404 /\ r.pc = "seeking"
                         /\ FirstWithId(r.booking_id) = 0
                      \/ after.code = 500 /\ after.error \in FaultTexts

\* C19 as stated: a cancel that finds its booking changes the status of
\* exactly one booking, the first in creation order carrying the id, and
\* leaves every other booking, every other field of that booking and the
\* facility list unchanged, the slots of other bookings staying unavailable.
\* A cancel of a booking that is cancelled already finds it, succeeds and
\* changes no status.
C19_ChangesOneStatus ==
    [][ \A t \in Threads :
          /\ CancelMarks(t) => /\ CancelFrame(t)
                               /\ Cardinality(StatusesChanged) = 1
          /\ CancelRest(t) ]_vars

\* C19: a cancel that finds its booking sets to cancelled the status of
\* exactly one booking, the first in creation order carrying the id, which
\* changes one status when that booking was confirmed and none when it was
\* cancelled already; every other booking, every other field of that
\* booking and the facility list stay as they were, a triple held by
\* another confirmed booking stays unavailable, and the rest of the
\* request, which looks for the booking, writes the file and answers,
\* changes no booking and no facility.
C19_CancelFrame ==
    [][ \A t \in Threads :
          /\ CancelMarks(t) =>
                /\ CancelFrame(t)
                /\ StatusesChanged =
                      IF Confirmed(bookings[inflight[t].at])
                      THEN { inflight[t].at } ELSE {}
          /\ CancelRest(t) ]_vars

\* two cancels of one booking have both returned 200, the later of them
\* having marked a booking that was cancelled already; the booking is the
\* second in creation order and the first is still confirmed
C19_Witness ==
    /\ \A t \in Threads :
          /\ inflight[t].kind = "cancel" /\ inflight[t].pc = "done"
          /\ inflight[t].code = 200 /\ inflight[t].at = 2
    /\ Len(bookings) = 2
    /\ Confirmed(bookings[1]) /\ bookings[2].status = "cancelled"

\* two bookings share an id and a triple; a cancel by that id has marked the
\* first, left the second confirmed and returned 200
C19_FirstOfSharedId ==
    /\ \E t \in Threads :
          /\ inflight[t].kind = "cancel" /\ inflight[t].pc = "done"
          /\ inflight[t].code = 200 /\ inflight[t].at = 1
    /\ Len(bookings) = 2
    /\ bookings[1].booking_id = bookings[2].booking_id
    /\ SameTriple(bookings[1], bookings[2])
    /\ bookings[1].status = "cancelled" /\ Confirmed(bookings[2])


\* C16: a message forwarded to the completion service is sent with exactly
\* one system instruction followed by the last min(10, n) turns of the
\* transcript in order, n being the length of the transcript, the message
\* appended; the last turn sent is the current user message, and the
\* transcript stays as it is.
C16_ContextWindow ==
    [][ \A t \in Threads :
          LET r == inflight[t]
              after == inflight'[t]
              n == Len(conversation_history)
              m == IF n < 10 THEN n ELSE 10
          IN  ( r.pc = "received" /\ after.pc = "calling" )
                => /\ Len(after.sent) = m + 1
                   /\ after.sent[1].role = "system"
                   /\ \A k \in 2 .. (m + 1) : after.sent[k].role # "system"
                   /\ \A k \in 1 .. m : after.sent[k + 1] = conversation_history[n - m + k]
                   /\ after.sent[m + 1] = Turn("user", r.message)
                   /\ conversation_history' = conversation_history ]_vars


\* the bookings with status confirmed, by position in the collection
ConfirmedIndices == { i \in DOMAIN bookings : Confirmed(bookings[i]) }

\* the last min(10, c) of the c confirmed bookings
ShownIndices ==
    { i \in ConfirmedIndices :
        Cardinality({ j \in ConfirmedIndices : j >= i }) <= 10 }

\* the entries of the bookings at the positions S, in creation order
RECURSIVE Rendered(_)
Rendered(S) ==
    IF S = {} THEN ""
    ELSE LET last == CHOOSE i \in S : \A j \in S : j <= i
         IN  Rendered(S \ { last }) \o booking_entry(bookings[last])

\* C17 as stated: asked for the booking listing, the dispatcher answers,
\* without the completion service, with the entries of exactly the last
\* min(10, c) bookings that are confirmed, in creation order, and of no
\* cancelled one; when no booking is confirmed it answers with a none-found
\* message; and the call appends, besides the user turn, exactly one
\* assistant turn, which carries the answer.
C17_ListingShowsLastConfirmed ==
    [][ \A t \in Threads :
          LET r == inflight[t]
              after == inflight'[t]
          IN  ( /\ r.kind = "chat" /\ after # r
                /\ r.message \in ListingMessages /\ r.pc # "done" )
                => /\ after.sent = << >>
                   /\ r.pc \in { "received", "listing" }
                        => conversation_history' = conversation_history
                   /\ after.pc = "replying"
                        => /\ Cardinality(ShownIndices)
                                 = (IF Cardinality(ConfirmedIndices) < 10
                                    THEN Cardinality(ConfirmedIndices) ELSE 10)
                           /\ after.reply =
                                 IF bookings = << >> THEN "No bookings found."
                                 ELSE IF ConfirmedIndices = {}
                                 THEN "No confirmed bookings at the moment."
                                 ELSE "**Current Bookings:**\n\n"
                                        \o Rendered(ShownIndices)
                   /\ r.pc = "replying"
                        => /\ after.pc = "done" /\ after.code = 200
                           /\ Len(conversation_history')
                                 = Len(conversation_history) + 1
                           /\ SubSeq(conversation_history', 1,
                                     Len(conversation_history))
                                 = conversation_history
                           /\ conversation_history'[Len(conversation_history')]
                                 = Turn("assistant", r.reply) ]_vars


\* handled one at a time, a call asking for the listing is answered, without
\* the completion service, with the entries of exactly the last min(10, c)
\* confirmed bookings in creation order, or with a none-found message, and
\* appends the user turn and one assistant turn carrying the answer
C17_OneAtATime ==
    [][ ( /\ resp'.op = "chat" /\ resp'.code = 200
          /\ conversation_history'[Len(conversation_history) + 1].content
                \in ListingMessages )
          => /\ Cardinality(ShownIndices)
                   = (IF Cardinality(ConfirmedIndices) < 10
                      THEN Cardinality(ConfirmedIndices) ELSE 10)
             /\ resp'.reply =
                   IF bookings = << >> THEN "No bookings found."
                   ELSE IF ConfirmedIndices = {} THEN "No confirmed bookings at the moment."
                   ELSE "**Current Bookings:**\n\n" \o Rendered(ShownIndices)
             /\ resp'.llm = << >>
             /\ Len(conversation_history') = Len(conversation_history) + 2
             /\ conversation_history'[Len(conversation_history) + 2]
                   = Turn("assistant", resp'.reply) ]_vars

\* eleven of thirteen bookings are confirmed and the listing just given
\* shows the last ten of them, leaving out the oldest and the cancelled
C17_OneAtATimeReached ==
    /\ resp.op = "chat" /\ resp.llm = << >>
    /\ Len(bookings) = 13 /\ Cardinality(ConfirmedIndices) = 11
    /\ ShownIndices = (2 .. 13) \ { 5, 10 }
    /\ resp.reply = "**Current Bookings:**\n\n" \o Rendered(ShownIndices)
    /\ conversation_history = << Turn("user", "list MY BOOKINGS"),
                                 Turn("assistant", resp.reply) >>


\* C18: every handled message, whether an intent answers it, the completion
\* service answers it or the service fails, appends exactly one user turn
\* carrying the message and then exactly one assistant turn carrying the
\* reply, and leaves the earlier turns as they were.  Hence the transcript
\* always has even length and alternates user, assistant from its first turn
\* on.
C18_OneExchangePerCall ==
    [][ /\ resp'.op = "process_message"
        /\ LET n == Len(conversation_history)
           IN  /\ Len(conversation_history') = n + 2
               /\ SubSeq(conversation_history', 1, n) = conversation_history
               /\ conversation_history'[n + 1].role = "user"
               /\ conversation_history'[n + 1].content \in AgentMessages
               /\ conversation_history'[n + 2] = Turn("assistant", resp'.reply)
        /\ Len(conversation_history') % 2 = 0
        /\ \A i \in DOMAIN conversation_history' :
              conversation_history'[i].role
                  = (IF i % 2 = 1 THEN "user" ELSE "assistant") ]_vars

\* three calls from an empty transcript, one per path: a failed completion,
\* an intent, a completion
C18_Witness ==
    /\ Len(conversation_history) = 6
    /\ conversation_history[1].content = "hello"
    /\ conversation_history[2].content = error_message("Connection error")
    /\ conversation_history[3].content = "list MY BOOKINGS"
    /\ conversation_history[4].content = get_all_bookings_info
    /\ conversation_history[6].content = "Sure, which date would you like?"
    /\ resp.op = "process_message" /\ resp.llm # << >>


\* the slots of hours that follow slot, as many as a booking of that
\* duration would cover beyond its own
FollowingSlots(hours, slot, duration) ==
    { hours[n] : n \in { k \in DOMAIN hours :
                           \E m \in DOMAIN hours :
                               /\ hours[m] = slot /\ k > m /\ k < m + duration } }

\* each slot following a confirmed booking of two or more hours, within its
\* span, is available exactly when no confirmed booking names it
SpanIsFree ==
    \A i \in DOMAIN bookings :
        LET b == bookings[i]
        IN  (Confirmed(b) /\ b.duration > 1)
              => \A s \in FollowingSlots(AvailableHours, b.time_slot, b.duration) :
                    check_availability(b.turf_id, b.date, s)
                        = ~ Held(bookings, b.turf_id, b.date, s)

\* C20: duration reserves nothing.  After any boundary request, a slot of a
\* facility and date is unavailable exactly when a confirmed booking names
\* that very slot, so the slots following a confirmed booking of two or more
\* hours are available unless booked themselves; and a complete create
\* request for a triple no confirmed booking names is recorded as confirmed
\* with the duration it asked for, whatever that duration and whatever longer
\* bookings precede its slot: it is answered 200 with that record, or 500
\* naming a storage fault when the write of the file failed, and never
\* turned down.
C20_DurationReservesNothing ==
    [][ /\ SpanIsFree /\ SpanIsFree'
        /\ \A data \in DurationRequests :
              ( /\ resp'.op = "book"
                /\ ~ Held(bookings, data["turf_id"], data["date"], data["time_slot"])
                /\ ApiBook(data, { 1 }, FlushFaults) )
                => /\ resp'.code \in { 200, 500 }
                   /\ resp'.code = 500
                        => resp'.error \in { f.error : f \in StorageFaults }
                   /\ resp'.code = 200
                        => resp'.booking = << bookings'[Len(bookings')] >>
                   /\ Len(bookings') = Len(bookings) + 1
                   /\ SubSeq(bookings', 1, Len(bookings)) = bookings
                   /\ Confirmed(bookings'[Len(bookings')])
                   /\ bookings'[Len(bookings')].time_slot = data["time_slot"]
                   /\ bookings'[Len(bookings')].duration
                        = Get(data, "duration", 1) ]_vars

\* a three-hour booking at 18:00 is confirmed and 19:00, inside its span,
\* has just been booked for two hours
C20_Witness ==
    /\ resp.op = "book" /\ resp.code = 200
    /\ Len(bookings) = 2
    /\ Confirmed(bookings[1]) /\ bookings[1].time_slot = "18:00"
    /\ bookings[1].duration = 3
    /\ Confirmed(bookings[2]) /\ bookings[2].time_slot = "19:00"
    /\ bookings[2].duration = 2
    /\ SameTriple(bookings[1], [ bookings[2] EXCEPT !.time_slot = "18:00" ])
    /\ check_availability("turf_001", "2024-06-01", "20:00")

====
